---- MODULE Spec2Model ----
(***************************************************************************)
(* A model of the micropath routing core: the element tree and its merge   *)
(* (micropath/elements.py), the binding order of BindingMap, and the path  *)
(* walking dispatcher of Controller (micropath/controller.py).             *)
(*                                                                         *)
(* Python objects live in one heap record: every Element is a node number, *)
(* every MergingMap/BindingMap is named by the node whose constructor      *)
(* created it, and an attribute holding a map is the number of that node.  *)
(***************************************************************************)
EXTENDS Integers, Sequences, FiniteSets, TLC

VARIABLES
    heap,       \* the Element objects and their maps
    lastOp,     \* the operation performed last and how it ended
    pc,         \* position of the dispatcher
    ctrl,       \* Root of the controller that is dispatching
    elem,       \* element the walk has reached
    scriptName, \* segments of the request consumed so far
    pathInfo,   \* segments of the request not yet consumed
    verb,       \* request method
    inj,        \* the injector: key -> value
    urlvars,    \* the variable bindings sink
    pathInfoRequired,  \* path_info_required of _micropath_resolve
    sel,        \* func and delegation picked by _micropath_delegation
    outcome,    \* what the dispatch produced
    signatures, \* all_args of the WantSignature cached on each function
    result,     \* how the last call through the injection engine ended
    available,  \* Injector._available: key -> value
    deferred,   \* Injector._deferred: key -> producer
    keySet,     \* Injector._keys
    keep,       \* InjectorCleanup.keep
    invoked,    \* how often each producer has run since the key was set
    entered,    \* the producers the Injector held when the scope was entered
    owner,      \* "new" before Controller.__init__ of the owner, then "ready"
    delegations,  \* _micropath_delegations of the owner's class
    dcache,     \* Delegation._cache[id(owner)] of each Delegation
    built,      \* how many sub-controllers each Delegation has constructed
    seen,       \* the sub-controllers Delegation.get has returned to requests
    threads,    \* where each request thread is within Delegation.get
    owners,     \* the controller objects: alive or not, address, referenced
    caches,     \* Delegation._cache of each Delegation: id(owner) -> object
    insts,      \* the sub-controllers constructed, with their attributes
    got         \* what the last Delegation.get returned

engVars == <<signatures, result, available, deferred, keySet, keep, invoked,
             entered>>
routeVars == <<heap, lastOp, pc, ctrl, elem, scriptName, pathInfo, verb, inj,
               urlvars, pathInfoRequired, sel, outcome>>
ownVars == <<owners, caches, insts, got>>
concVars == <<owner, delegations, dcache, built, seen, threads, ownVars>>
vars == <<heap, lastOp, pc, ctrl, elem, scriptName, pathInfo, verb, inj,
          urlvars, pathInfoRequired, sel, outcome, engVars, concVars>>
dispVars == <<pc, ctrl, elem, scriptName, pathInfo, verb, inj, urlvars,
              pathInfoRequired, sel, outcome, engVars, concVars>>

\* ------------------------------------------------------------------------
\* Bounds of the model
\* ------------------------------------------------------------------------
\* Number of Element objects that can be allocated
MaxNodes == 8
\* Depth of nested merge() calls after which Python raises RecursionError
MaxDepth == 8
\* Number of Bindings declared at the node of the binding-order model
MaxBindings == 3

Node == 1..MaxNodes
NoNode == 0
None == "None"
\* The Delegation objects
Deleg == {"d1", "d2"}

\* ------------------------------------------------------------------------
\* Small helpers on sequences
\* ------------------------------------------------------------------------
Range(s) == {s[i] : i \in DOMAIN s}

RECURSIVE Reverse(_)
Reverse(s) == IF s = <<>> THEN <<>> ELSE Append(Reverse(Tail(s)), Head(s))

\* Python string ordering of the identifiers used in the model
LexOrder == <<"a", "b", "book_id", "books", "c", "d", "k", "sub_id", "x", "y">>
Rank(id) == CHOOSE i \in DOMAIN LexOrder : LexOrder[i] = id

\* sorted(S, reverse=True) on identifiers
RECURSIVE SortedDesc(_)
SortedDesc(S) ==
    IF S = {} THEN <<>>
    ELSE IF Cardinality(S) = 1 THEN <<CHOOSE x \in S : TRUE>>
    ELSE LET m == CHOOSE x \in S : \A y \in S : Rank(y) <= Rank(x)
         IN  <<m>> \o SortedDesc(S \ {m})

\* ------------------------------------------------------------------------
\* The heap of Element objects (Element.__init__)
\* ------------------------------------------------------------------------
EmptyHeap ==
    [ alloc    |-> 0,
      kind     |-> [n \in Node |-> "free"],
      ident    |-> [n \in Node |-> None],
      parent   |-> [n \in Node |-> NoNode],
      master   |-> [n \in Node |-> NoNode],
      deleg    |-> [n \in Node |-> None],
      func     |-> [n \in Node |-> None],
      before   |-> [n \in Node |-> {}],
      after    |-> [n \in Node |-> {}],
      valid    |-> [n \in Node |-> None],
      fmt      |-> [n \in Node |-> None],
      paths    |-> [n \in Node |-> n],
      bindings |-> [n \in Node |-> n],
      methods  |-> [n \in Node |-> n],
      pmap     |-> [n \in Node |-> <<>>],
      bmap     |-> [n \in Node |-> <<>>],
      mmap     |-> [n \in Node |-> <<>>],
      cached   |-> [n \in Node |-> FALSE],
      order    |-> [n \in Node |-> <<>>],
      delem    |-> [d \in Deleg |-> NoNode],
      dctrl    |-> [d \in Deleg |-> NoNode] ]

Ok(h) == [h |-> h, err |-> "ok"]
Fail(h, e) == [h |-> h, err |-> e]

\* Element.__init__: a new object with empty maps, no delegation, no master
NewElem(h, k, id, par) ==
    LET n == h.alloc + 1
    IN  [h EXCEPT !.alloc = n, !.kind[n] = k, !.ident[n] = id,
                  !.parent[n] = par]

\* Truth value of an ident (None and the empty string are false)
Truthy(id) == id # None /\ id # ""

\* The entries of a map object; which is "paths", "bindings" or "methods"
MapOf(h, which, m) ==
    CASE which = "paths" -> h.pmap[m]
      [] which = "bindings" -> h.bmap[m]
      [] which = "methods" -> h.mmap[m]

\* The map object an element's attribute refers to
AttrOf(h, which, n) ==
    CASE which = "paths" -> h.paths[n]
      [] which = "bindings" -> h.bindings[n]
      [] which = "methods" -> h.methods[n]

Keys(entries) == {entries[i].k : i \in DOMAIN entries}
Values(entries) == {entries[i].v : i \in DOMAIN entries}
Lookup(entries, key) ==
    entries[CHOOSE i \in DOMAIN entries : entries[i].k = key].v

\* dict store of a new key (self._map[key] = value)
MapStore(h, which, m, key, value) ==
    LET e == [k |-> key, v |-> value]
    IN  CASE which = "paths" -> [h EXCEPT !.pmap[m] = Append(@, e)]
          [] which = "bindings" -> [h EXCEPT !.bmap[m] = Append(@, e)]
          [] which = "methods" -> [h EXCEPT !.mmap[m] = Append(@, e)]

\* ------------------------------------------------------------------------
\* BindingMap: the order of the Bindings of one node
\* ------------------------------------------------------------------------
\* What BindingMap.__iter__ adds to adjacency[other] for `other` in the
\* after set of `binding`
AfterEdge(other, binding) == other

\* The adjacency dictionary built by BindingMap.__iter__; Bindings hash and
\* compare by ident, so the dictionary is keyed by ident
Adjacency(h, m) ==
    LET bs == Values(h.bmap[m])
        afterOf(b) == {h.ident[o] : o \in h.after[b]}
        keys == {h.ident[b] : b \in bs} \cup UNION {afterOf(b) : b \in bs}
    IN  [k \in keys |->
            UNION {{h.ident[o] : o \in h.before[b]} :
                       b \in {c \in bs : h.ident[c] = k}}
            \cup {AfterEdge(k, h.ident[b]) :
                       b \in {c \in bs : k \in afterOf(c)}}]

\* adjacency.pop(item)
AdjPop(adj, item) == [k \in (DOMAIN adj) \ {item} |-> adj[k]]

\* The order in which _from_adj sorts the popped set of an item
FromAdjSort(S) == SortedDesc(S)

\* sorted() compares the idents pairwise (Binding.__lt__): an ident that is
\* None cannot be compared with a string, alone it is compared with nothing
Sortable(S) == None \notin S \/ Cardinality(S) <= 1

\* _from_adj: the work item of a Binding, its set sorted in reverse
FromAdj(adj, item) == [binding |-> item, before |-> FromAdjSort(adj[item])]

\* BindingMap._visit: the work-queue loop of the depth-first sort
\* sorted() in _from_adj raises TypeError after the item has been popped
RECURSIVE Visit(_, _, _)
Visit(adj, ord, queue) ==
    IF queue = <<>> THEN [adj |-> adj, ord |-> ord, err |-> "ok"]
    ELSE LET top == queue[Len(queue)]
             rest == SubSeq(queue, 1, Len(queue) - 1)
         IN  IF top.before = <<>>
             THEN Visit(adj, Append(ord, top.binding), rest)
             ELSE LET b == Head(top.before)
                      q1 == Append(rest, [top EXCEPT !.before = Tail(@)])
                  IN  IF b \notin DOMAIN adj THEN Visit(adj, ord, q1)
                      ELSE IF Sortable(adj[b])
                      THEN Visit(AdjPop(adj, b), ord,
                                 Append(q1, FromAdj(adj, b)))
                      ELSE [adj |-> AdjPop(adj, b), ord |-> ord,
                            err |-> "TypeError"]

\* The kick-off loop of BindingMap.__iter__ over sorted(adjacency, reverse)
\* It ends with the list built so far, not yet reversed, and with the
\* TypeError of a sorted() call if one was raised
RECURSIVE KickOff(_, _, _)
KickOff(adj, ord, items) ==
    IF items = <<>> THEN [ord |-> ord, err |-> "ok"]
    ELSE LET item == Head(items)
         IN  IF item \notin DOMAIN adj THEN KickOff(adj, ord, Tail(items))
             ELSE IF ~Sortable(adj[item])
             THEN [ord |-> ord, err |-> "TypeError"]
             ELSE LET r == Visit(AdjPop(adj, item), ord,
                                 <<FromAdj(adj, item)>>)
                  IN  IF r.err = "ok"
                      THEN KickOff(r.adj, r.ord, Tail(items))
                      ELSE [ord |-> r.ord, err |-> r.err]

\* A kick-off loop that visits the items in ascending order
KickOffSortAscending(S) == Reverse(SortedDesc(S))

\* sorted(adjacency, reverse=True): the order of the kick-off loop
KickOffSort(S) == SortedDesc(S)

\* The topological sort of BindingMap.__iter__ on an adjacency map:
\* self._order = [] and the kick-off loop, whose sorted() may raise
TopoSort(adj) ==
    IF Sortable(DOMAIN adj)
    THEN KickOff(adj, <<>>, KickOffSort(DOMAIN adj))
    ELSE [ord |-> <<>>, err |-> "TypeError"]

\* The list BindingMap.__iter__ stores in _order when the sort completes,
\* as idents: the list of the sort reversed in place
ComputeOrder(h, m) == Reverse(TopoSort(Adjacency(h, m)).ord)

\* self._order = [...] and the iterator over it
CacheOrder(h, m, o) ==
    [h |-> [h EXCEPT !.cached[m] = TRUE, !.order[m] = o], keys |-> o,
     err |-> "ok"]

\* The end of the computation in BindingMap.__iter__: the list is reversed
\* and returned; when sorted() raised, _order is no longer None and holds
\* what the sort had appended
IterStore(h, m, r) ==
    IF r.err = "ok" THEN CacheOrder(h, m, Reverse(r.ord))
    ELSE [h |-> [h EXCEPT !.cached[m] = TRUE, !.order[m] = r.ord],
          keys |-> <<>>, err |-> r.err]

\* BindingMap.__iter__: compute and memoize the order, return the idents
BindingIter(h, m) ==
    IF h.cached[m] THEN [h |-> h, keys |-> h.order[m], err |-> "ok"]
    ELSE IterStore(h, m, TopoSort(Adjacency(h, m)))

\* ------------------------------------------------------------------------
\* Element.merge and MergingMap.__setitem__
\* ------------------------------------------------------------------------
\* Element.delegation (property): defers to the master
RECURSIVE DelegationOf(_, _, _)
DelegationOf(h, n, fuel) ==
    IF fuel = 0 THEN "RecursionError"
    ELSE IF h.master[n] # NoNode THEN DelegationOf(h, h.master[n], fuel - 1)
    ELSE h.deleg[n]

\* `self._master or self`
MasterOrSelf(h, self) ==
    IF h.master[self] # NoNode THEN h.master[self] ELSE self

\* The walk of the other element's chain of masters
RECURSIVE WalkMasters(_, _, _)
WalkMasters(h, self, other) ==
    IF h.master[other] = NoNode THEN [h |-> h, other |-> other]
    ELSE WalkMasters([h EXCEPT !.master[other] = MasterOrSelf(h, self)],
                     self, h.master[other])

\* A merge loop that leaves the parent of the element alone
ReparentSkipped(h, el, self) == h

\* elem.parent = self
Reparent(h, el, self) == [h EXCEPT !.parent[el] = self]

\* A test that lets elements with and without a parent through
ParentMismatchNever(h, self, other) == FALSE

\* `elif self.parent or other.parent`, reached when not both have a parent
ParentMismatch(h, self, other) ==
    (h.parent[self] # NoNode) # (h.parent[other] # NoNode)

\* A test that finds no two delegations in conflict
DelegationConflictNever(h, self, od) == FALSE

\* The test for conflicting delegations: od is other.delegation, which is
\* read only when self._delegation is set
DelegationConflict(h, self, od) ==
    h.deleg[self] # None /\ od # None /\ h.deleg[self] # od

\* Make the other element a proxy: it refers to this element's maps
ShareMaps(h, self, other) ==
    [h EXCEPT !.paths[other] = h.paths[self],
              !.bindings[other] = h.bindings[self],
              !.methods[other] = h.methods[self]]

\* A merge that leaves both delegations where they are
MoveDelegationSkipped(h, self, other) == h

\* Set the delegation of the merged pair
MoveDelegation(h, self, other) ==
    LET h1 == IF h.deleg[other] # None
              THEN [h EXCEPT !.deleg[self] = h.deleg[other]] ELSE h
    IN  [h1 EXCEPT !.deleg[other] = None]

\* other._master = self._master or self
SetMaster(h, self, other) ==
    [h EXCEPT !.master[other] = MasterOrSelf(h, self)]

RECURSIVE Merge(_, _, _, _)
RECURSIVE LoopPlain(_, _, _, _, _, _, _, _)
RECURSIVE LoopBind(_, _, _, _, _, _)

\* BindingMap.__setitem__ after the store has returned: the order cache
\* is dropped; a store that raised leaves it
Invalidate(r, which, m) ==
    IF r.err = "ok" /\ which = "bindings"
    THEN Ok([r.h EXCEPT !.cached[m] = FALSE, !.order[m] = <<>>])
    ELSE r

\* MergingMap.__setitem__ and BindingMap.__setitem__ on map object m
SetItem(h, which, m, key, value, fuel) ==
    IF key # h.ident[value] THEN Fail(h, "AssertionError")
    ELSE Invalidate(IF key \in Keys(MapOf(h, which, m))
                    THEN Merge(h, Lookup(MapOf(h, which, m), key), value,
                               fuel)
                    ELSE Ok(MapStore(h, which, m, key, value)),
                    which, m)

\* elem.parent = self, reached only if the store before it returned
Reparented(r, el, self) ==
    IF r.err # "ok" THEN r ELSE Ok(Reparent(r.h, el, self))

\* The body of the merge loops: self_sub[elem.ident] = elem; elem.parent = self
LoopBody(h, self, which, sm, el, fuel) ==
    Reparented(SetItem(h, which, sm, h.ident[el], el, fuel), el, self)

\* for el in other_sub.values() over a dict-backed MergingMap: the dict
\* iterator fails once the dict has changed size
LoopPlain(r, self, which, sm, om, i, n0, fuel) ==
    IF r.err # "ok" THEN r
    ELSE IF Len(MapOf(r.h, which, om)) # n0 THEN Fail(r.h, "RuntimeError")
    ELSE IF i > n0 THEN r
    ELSE LoopPlain(LoopBody(r.h, self, which, sm,
                            MapOf(r.h, which, om)[i].v, fuel),
                   self, which, sm, om, i + 1, n0, fuel)

\* The start of a loop over a dict-backed map: the iterator notes the size
LoopPlainStart(r, self, which, sm, om, fuel) ==
    IF r.err # "ok" THEN r
    ELSE LoopPlain(r, self, which, sm, om, 1, Len(MapOf(r.h, which, om)),
                   fuel)

\* for el in other.bindings.values(): the keys come from
\* BindingMap.__iter__, each value is looked up when it is yielded
LoopBind(r, self, sm, om, keys, fuel) ==
    IF r.err # "ok" \/ keys = <<>> THEN r
    ELSE IF Head(keys) \notin Keys(r.h.bmap[om]) THEN Fail(r.h, "KeyError")
    ELSE LoopBind(LoopBody(r.h, self, "bindings", sm,
                           Lookup(r.h.bmap[om], Head(keys)), fuel),
                  self, sm, om, Tail(keys), fuel)

\* The loop over the keys an iterator of the binding map has produced
LoopBindKeys(it, self, sm, om, fuel) ==
    LoopBind([h |-> it.h, err |-> it.err], self, sm, om, it.keys, fuel)

\* The start of the loop over other.bindings.values()
LoopBindStart(r, self, sm, om, fuel) ==
    IF r.err # "ok" THEN r
    ELSE LoopBindKeys(BindingIter(r.h, om), self, sm, om, fuel)

\* The three loops that merge the subordinate lists; the six map objects
\* are read before the first loop runs
MergeSubs(h, self, other, fuel) ==
    LoopPlainStart(
        LoopBindStart(
            LoopPlainStart(Ok(h), self, "paths", h.paths[self],
                           h.paths[other], fuel),
            self, h.bindings[self], h.bindings[other], fuel),
        self, "methods", h.methods[self], h.methods[other], fuel)

\* The end of merge, reached only if the loops returned: the other
\* element becomes a proxy of this one
MergeFinish(r, self, other) ==
    IF r.err # "ok" THEN r
    ELSE Ok(SetMaster(MoveDelegation(ShareMaps(r.h, self, other),
                                     self, other),
                      self, other))

\* Element.merge(self, other)
Merge(h, self, other, fuel) ==
    IF fuel = 0 THEN Fail(h, "RecursionError")
    ELSE IF h.master[self] # NoNode
    THEN Merge(h, h.master[self], other, fuel - 1)
    ELSE IF h.kind[other] # h.kind[self] THEN Fail(h, "ValueError")
    ELSE IF h.ident[self] # h.ident[other] THEN Fail(h, "ValueError")
    ELSE LET od == IF h.deleg[self] = None THEN None
                   ELSE DelegationOf(h, other, fuel - 1)
         IN
         IF od = "RecursionError" THEN Fail(h, "RecursionError")
         ELSE IF DelegationConflict(h, self, od)
         THEN Fail(h, "ValueError")
         ELSE IF h.parent[self] # NoNode /\ h.parent[other] # NoNode
                 /\ h.parent[self] # h.parent[other]
         THEN Merge(h, h.parent[self], h.parent[other], fuel - 1)
         ELSE IF ParentMismatch(h, self, other)
         THEN Fail(h, "ValueError")
         ELSE LET w == WalkMasters(h, self, other)
              IN  MergeFinish(MergeSubs(w.h, self, w.other, fuel - 1),
                              self, w.other)

\* ------------------------------------------------------------------------
\* The tree-building operations of Element
\* ------------------------------------------------------------------------
\* Method.__init__ canonicalizes the verb to upper case
Upper(v) ==
    CASE v = "get" -> "GET"
      [] v = "post" -> "POST"
      [] v = "options" -> "OPTIONS"
      [] OTHER -> v

\* Element.path(ident); Method.path raises
ElemPath(h, self, id) ==
    IF h.kind[self] = "Method" THEN Fail(h, "ValueError")
    ELSE LET h1 == NewElem(h, "Path", id, self)
         IN  IF Truthy(id)
             THEN SetItem(h1, "paths", h1.paths[self], id, h1.alloc, MaxDepth)
             ELSE Ok(h1)

\* Binding.__init__ keeps before and after as sets; Bindings hash and
\* compare by ident, so of several with one ident the set keeps one
BindingSet(h, S) ==
    {b \in S : \A c \in S : h.ident[c] = h.ident[b] => b <= c}

\* Element.bind(ident, before, after); Method.bind raises
ElemBind(h, self, id, bef, aft) ==
    IF h.kind[self] = "Method" THEN Fail(h, "ValueError")
    ELSE LET h0 == NewElem(h, "Binding", id, self)
             n == h0.alloc
             h1 == [h0 EXCEPT !.before[n] = BindingSet(h, bef),
                              !.after[n] = BindingSet(h, aft)]
         IN  IF Truthy(id)
             THEN SetItem(h1, "bindings", h1.bindings[self], id, n, MaxDepth)
             ELSE Ok(h1)

\* Method(verb, func, parent=self)
NewMethod(h, v, f, par) ==
    [NewElem(h, "Method", v, par) EXCEPT !.func[h.alloc + 1] = f]

\* meth = Method(verb, func, parent=self); self.methods[meth.ident] = meth
AddMethod(h, self, v, f) ==
    SetItem(NewMethod(h, v, f, self), "methods", h.methods[self], v,
            h.alloc + 1, MaxDepth)

\* The loop of the decorator of Element.route over the listed verbs
RECURSIVE RouteLoop(_, _, _, _)
RouteLoop(r, self, verbs, f) ==
    IF r.err # "ok" \/ verbs = <<>> THEN r
    ELSE RouteLoop(AddMethod(r.h, self, Upper(Head(verbs)), f), self,
                   Tail(verbs), f)

\* Element.route(*methods)(func); Method.route raises
ElemRoute(h, self, verbs, f) ==
    IF h.kind[self] = "Method" THEN Fail(h, "ValueError")
    ELSE RouteLoop(Ok(h), self, IF verbs = <<>> THEN <<None>> ELSE verbs, f)

\* meth._delegation = delegation, reached only if the store returned
Delegated(r, n, d) ==
    IF r.err # "ok" THEN r ELSE Ok([r.h EXCEPT !.deleg[n] = d])

\* The loop of Element.mount over the listed verbs
RECURSIVE MountLoop(_, _, _, _)
MountLoop(r, self, verbs, d) ==
    IF r.err # "ok" \/ verbs = <<>> THEN r
    ELSE MountLoop(Delegated(AddMethod(r.h, self, Upper(Head(verbs)), None),
                             r.h.alloc + 1, d),
                   self, Tail(verbs), d)

\* Element.mount(delegation, *methods)
RECURSIVE ElemMount(_, _, _, _, _)
ElemMount(h, self, d, verbs, fuel) ==
    IF fuel = 0 THEN Fail(h, "RecursionError")
    ELSE IF h.master[self] # NoNode
    THEN ElemMount(h, h.master[self], d, verbs, fuel - 1)
    ELSE IF h.deleg[self] # None THEN Fail(h, "ValueError")
    ELSE IF verbs # <<>>
    THEN MountLoop(Ok([h EXCEPT !.delem[d] = self]), self, verbs, d)
    ELSE Ok([h EXCEPT !.delem[d] = self, !.deleg[self] = d])

\* A test that takes every ident for unset
IdentSetNever(h, n) == FALSE

\* `if self.ident` of Element.set_ident
IdentSet(h, n) == Truthy(h.ident[n])

\* Path.set_ident and Binding.set_ident; Root and Method raise
SetIdent(h, n, id) ==
    IF h.kind[n] \in {"Root", "Method"} THEN Fail(h, "ValueError")
    ELSE IF IdentSet(h, n) THEN Fail(h, "ValueError")
    ELSE LET h1 == [h EXCEPT !.ident[n] = id]
             par == h.parent[n]
         IN  IF par = NoNode THEN Ok(h1)
             ELSE IF h.kind[n] = "Path"
             THEN SetItem(h1, "paths", h1.paths[par], id, n, MaxDepth)
             ELSE SetItem(h1, "bindings", h1.bindings[par], id, n, MaxDepth)

\* ------------------------------------------------------------------------
\* Tree construction as a state machine
\* ------------------------------------------------------------------------
PathIdents == {"x", "k"}

Allocated(h) == 1..h.alloc

\* mount(SomeController) wraps the class in a new Delegation object: the
\* Delegation objects not yet created are those no mount has touched
FreshDeleg(h) ==
    IF h.delem["d1"] = NoNode THEN {"d1"}
    ELSE IF h.delem["d2"] = NoNode THEN {"d2"} ELSE {}

Op(name, r) == [op |-> name, err |-> r.err]

\* The heap an operation leaves behind, and how it ended
Done(name, r) == heap' = r.h /\ lastOp' = Op(name, r)

NoSel == [func |-> None, delegation |-> None]
NoOutcome == [type |-> "none"]

\* InjectorCleanup.keep: None outside the scope, the keys kept inside
NoKeep == [scope |-> FALSE, keys |-> {}]
Kept(ks) == [scope |-> TRUE, keys |-> ks]

\* No function has a cached signature and the Injector is empty
EngIdle ==
    /\ signatures = <<>>
    /\ result = [type |-> "none", op |-> None, key |-> None]
    /\ available = <<>> /\ deferred = <<>> /\ keySet = {}
    /\ keep = NoKeep /\ invoked = <<>> /\ entered = {}

DispOnly ==
    /\ pc = "idle" /\ ctrl = NoNode /\ elem = NoNode
    /\ scriptName = <<>> /\ pathInfo = <<>> /\ verb = None
    /\ inj = <<>> /\ urlvars = <<>> /\ pathInfoRequired = TRUE
    /\ sel = NoSel /\ outcome = NoOutcome

\* No owner has been constructed
NoInst == 0
\* No controller object exists and no Delegation has a cache entry
OwnIdle ==
    /\ owners = <<>> /\ caches = <<>> /\ insts = <<>>
    /\ got = [type |-> "none"]

ConcIdle ==
    /\ owner = "none" /\ delegations = {}
    /\ dcache = <<>> /\ built = <<>> /\ seen = <<>> /\ threads = <<>>
    /\ OwnIdle

DispIdle == DispOnly /\ EngIdle /\ ConcIdle

\* Trees under construction, each built by the operations themselves.
\* Two parentless Paths "x" with children in all three maps
FxPair ==
    LET h1 == NewElem(NewElem(EmptyHeap, "Path", "x", NoNode),
                      "Path", "x", NoNode)
        h2 == ElemPath(h1, 1, "k").h
        h3 == ElemPath(h2, 2, "y").h
        h4 == ElemBind(h3, 2, "a", {}, {}).h
    IN  ElemRoute(h4, 2, <<"get">>, "f1").h

\* Parentless elements of different idents and kinds
FxMixed ==
    LET h1 == NewElem(NewElem(EmptyHeap, "Path", "x", NoNode),
                      "Path", "x", NoNode)
        h2 == NewElem(NewElem(h1, "Path", "k", NoNode),
                      "Binding", "x", NoNode)
    IN  ElemPath(h2, 2, "y").h

\* Two Roots; under the first a Path "x" and a Path not yet named
FxRoot ==
    LET h1 == NewElem(EmptyHeap, "Root", None, NoNode)
        h2 == ElemPath(h1, 1, "x").h
        h3 == ElemPath(h2, 1, None).h
        h4 == ElemPath(h3, 3, "k").h
        h5 == NewElem(h4, "Root", None, NoNode)
    IN  ElemPath(h5, 5, "x").h

\* Three parentless Paths "x" with pairwise different children
FxThree ==
    LET h1 == NewElem(NewElem(NewElem(EmptyHeap, "Path", "x", NoNode),
                              "Path", "x", NoNode), "Path", "x", NoNode)
        h2 == ElemPath(h1, 1, "k").h
        h3 == ElemPath(h2, 2, "y").h
    IN  ElemBind(h3, 3, "a", {}, {}).h

\* A Path "k" below a Path "x", and a parentless Path "k" with a child
FxOrphan ==
    LET h1 == NewElem(EmptyHeap, "Path", "x", NoNode)
        h2 == ElemPath(h1, 1, "k").h
        h3 == NewElem(h2, "Path", "k", NoNode)
    IN  ElemPath(h3, 3, "y").h

Fixtures == {FxPair, FxMixed, FxRoot, FxThree, FxOrphan}

InitMerge ==
    /\ heap \in Fixtures
    /\ lastOp = [op |-> "init", err |-> "ok"]
    /\ DispIdle

\* elem.mount(SomeController): the class is wrapped in a new Delegation
ActMount(n, d) ==
    /\ d \in FreshDeleg(heap)
    /\ Done("mount", ElemMount(heap, n, d, <<>>, MaxDepth))
    /\ UNCHANGED dispVars

\* elem.set_ident(ident)
ActSetIdent(n, id) ==
    /\ Done("set_ident", SetIdent(heap, n, id))
    /\ UNCHANGED dispVars

\* s.merge(o)
ActMerge(s, o) ==
    /\ Done("merge", Merge(heap, s, o, MaxDepth))
    /\ UNCHANGED dispVars

NextMerge ==
    \/ \E n \in Allocated(heap), d \in Deleg : ActMount(n, d)
    \/ \E n \in Allocated(heap), id \in PathIdents : ActSetIdent(n, id)
    \/ \E s, o \in Allocated(heap) : ActMerge(s, o)

SpecMerge == InitMerge /\ [][NextMerge]_vars

\* ------------------------------------------------------------------------
\* The binding order of one node as a state machine
\* ------------------------------------------------------------------------
OrderIdents == {"a", "b", "c", "d"}

\* The node whose Bindings are declared and iterated
OrderNode == 1

BindingsOf(h) == {n \in Allocated(h) : h.kind[n] = "Binding"}

InitOrder ==
    /\ heap = NewElem(EmptyHeap, "Root", None, NoNode)
    /\ lastOp = [op |-> "init", err |-> "ok"]
    /\ DispIdle

\* OrderNode.bind(ident, before=..., after=...) with an ident the node
\* does not have yet and no Binding named both in before and in after
ActBind(id, bef, aft) ==
    /\ Cardinality(BindingsOf(heap)) < MaxBindings
    /\ bef \cap aft = {}
    /\ id \notin Keys(heap.bmap[heap.bindings[OrderNode]])
    /\ heap.alloc < MaxNodes
    /\ Done("bind", ElemBind(heap, OrderNode, id, bef, aft))
    /\ UNCHANGED dispVars

\* iter(OrderNode.bindings)
ActIter ==
    /\ Done("iter", BindingIter(heap, heap.bindings[OrderNode]))
    /\ UNCHANGED dispVars

NextOrder ==
    \/ \E id \in OrderIdents :
         \E bef \in SUBSET BindingsOf(heap), aft \in SUBSET BindingsOf(heap) :
           ActBind(id, bef, aft)
    \/ ActIter

SpecOrder == InitOrder /\ [][NextOrder]_vars

\* ------------------------------------------------------------------------
\* Properties of the binding order (SpecOrder)
\* ------------------------------------------------------------------------
OrderMap == heap.bmap[heap.bindings[OrderNode]]
OrderKeys == Keys(OrderMap)
OrderList == heap.order[heap.bindings[OrderNode]]
OrderCached == heap.cached[heap.bindings[OrderNode]]

Pos(ord, id) == CHOOSE i \in DOMAIN ord : ord[i] = id

\* The declared constraints among the Bindings of the node, as pairs
\* <<x, y>> of idents meaning "x is tried before y": X.before holds Y gives
\* <<X, Y>>, X.after holds Y gives <<Y, X>>
BeforeEdges ==
    {e \in OrderKeys \X OrderKeys :
        \E x \in Values(OrderMap) :
            /\ heap.ident[x] = e[1]
            /\ \E y \in heap.before[x] : heap.ident[y] = e[2]}
AfterEdges ==
    {e \in OrderKeys \X OrderKeys :
        \E x \in Values(OrderMap) :
            /\ heap.ident[x] = e[2]
            /\ \E y \in heap.after[x] : heap.ident[y] = e[1]}
ConstraintEdges == BeforeEdges \cup AfterEdges

\* Transitive closure of a relation on the keys
RECURSIVE Closure(_, _)
Closure(R, k) ==
    IF k = 0 THEN R
    ELSE LET C == Closure(R, k - 1)
         IN  C \cup {e \in OrderKeys \X OrderKeys :
                       \E z \in OrderKeys : <<e[1], z>> \in C /\ <<z, e[2]>> \in C}
Ordered == Closure(ConstraintEdges, Cardinality(OrderKeys))
Acyclic == \A x \in OrderKeys : <<x, x>> \notin Ordered

\* A Binding of the node that takes part in no constraint at all
Unconstrained(x) ==
    \A e \in ConstraintEdges : e[1] # x /\ e[2] # x

Ascending(ord) ==
    \A i, j \in DOMAIN ord : i < j => Rank(ord[i]) < Rank(ord[j])

\* C6: for every acyclic set of before/after constraints the order of the
\* node's binding map satisfies all of them: X before Y when X lists Y in
\* before, X after Y when X lists Y in after.
C6_OrderRespectsConstraints ==
    (OrderCached /\ Acyclic) =>
        \A e \in ConstraintEdges :
            Pos(OrderList, e[1]) < Pos(OrderList, e[2])

InsertOrders(n) ==
    {p \in [1..n -> 1..n] : \A i, j \in 1..n : p[i] = p[j] => i = j}
Reinserted(h, m, p) ==
    [h EXCEPT !.bmap[m] = [i \in DOMAIN h.bmap[m] |-> h.bmap[m][p[i]]]]

micropath_methods == {"HEAD", "GET", "PUT", "POST", "DELETE", "OPTIONS"}

\* The injection signatures of the handler functions of the controllers,
\* without self: WantSignature.required, .optional and .all_kw
HandlerSig(f) ==
    CASE f = "index" -> [required |-> {"request"}, optional |-> {},
                         all_kw |-> FALSE]
      [] f = "list"  -> [required |-> {"request"}, optional |-> {},
                         all_kw |-> FALSE]
      [] f = "get"   -> [required |-> {"request", "sub_id", "book_id"},
                         optional |-> {}, all_kw |-> FALSE]
      [] f = "tail"  -> [required |-> {"request"},
                         optional |-> {"path_info"}, all_kw |-> FALSE]

\* injector.wants(func, keyword): WantSignature.__contains__
Wants(f, keyword) ==
    HandlerSig(f).all_kw
        \/ keyword \in HandlerSig(f).required \cup HandlerSig(f).optional

\* The value an injector key yields: path_info is a deferred request
\* attribute, computed from the request when it is asked for
InjValue(kwargs, rest, key) ==
    IF kwargs[key] = "deferred" THEN rest ELSE kwargs[key]

\* inj(func, self): WantSignature.__call__ with self as the one positional
\* argument; the handler's result is the record of its call
InjCall(f, kwargs, rest) ==
    LET sig == HandlerSig(f)
        desired == sig.required \cup sig.optional
                       \cup (IF sig.all_kw THEN DOMAIN kwargs ELSE {})
        real_kw == [k \in desired \cap DOMAIN kwargs |->
                        InjValue(kwargs, rest, k)]
        missing == sig.required \ DOMAIN real_kw
    IN  IF missing # {}
        THEN [type |-> "server_error", exc |-> "TypeError"]
        ELSE [type |-> "called", func |-> f, kw |-> real_kw]

\* The attributes a BindingMap object has; validate and ident are
\* attributes of Binding, not of the map
BindingMapAttrs ==
    {"_map", "_order", "_visit", "get", "keys", "values", "items"}

\* One more selection: the Method's function with the delegation of the
\* element, whatever the Method delegates to
MicropathDelegationOwn(h, el, v) ==
    LET ms == h.mmap[h.methods[el]]
        key == IF v = "HEAD" THEN "GET" ELSE v
        meth == IF key \in Keys(ms) THEN Lookup(ms, key)
                ELSE IF None \in Keys(ms) THEN Lookup(ms, None)
                ELSE NoNode
    IN  [func |-> IF meth # NoNode THEN h.func[meth] ELSE None,
         delegation |-> DelegationOf(h, el, MaxDepth)]

\* Controller._micropath_delegation: the function and the delegation for
\* the request's verb at the element
MicropathDelegation(h, el, v) ==
    LET ms == h.mmap[h.methods[el]]
        key == IF v = "HEAD" THEN "GET" ELSE v
        meth == IF key \in Keys(ms) THEN Lookup(ms, key)
                ELSE IF None \in Keys(ms) THEN Lookup(ms, None)
                ELSE NoNode
        md == IF meth # NoNode THEN DelegationOf(h, meth, MaxDepth) ELSE None
    IN  [func |-> IF meth # NoNode THEN h.func[meth] ELSE None,
         delegation |-> IF md # None THEN md
                        ELSE DelegationOf(h, el, MaxDepth)]

\* One more verb set: the keys and the fallback, without the HEAD rule
MicropathMethodsNoHead(h, el) ==
    LET keys == Keys(h.mmap[h.methods[el]])
    IN  (keys \ {None})
            \cup (IF None \in keys THEN micropath_methods ELSE {})
            \cup {"OPTIONS"}

\* Controller._micropath_methods: the verbs available at the element
MicropathMethods(h, el) ==
    LET keys == Keys(h.mmap[h.methods[el]])
        meths == (keys \ {None})
                     \cup (IF None \in keys THEN micropath_methods ELSE {})
    IN  meths \cup (IF "GET" \in meths THEN {"HEAD"} ELSE {})
              \cup {"OPTIONS"}

\* Delegation(controller): the root of the class delegated to
NewDelegation(h, d, root) == [h EXCEPT !.dctrl[d] = root]

\* Binding.validator(func): the validator is set once
SetValidator(h, b, f) ==
    IF h.valid[b] # None THEN Fail(h, "ValueError")
    ELSE Ok([h EXCEPT !.valid[b] = f])

\* The controller classes of the dispatch model, each tree built by the
\* declarations of its class.  The root of the class served is node 1.
MainRoot == 1

\* root -> Binding(sub_id) -> Path(books) -> Binding(book_id) -> GET
TreeBooks ==
    LET h1 == NewElem(EmptyHeap, "Root", None, NoNode)
        h2 == ElemRoute(h1, 1, <<"get">>, "index").h
        h3 == ElemBind(h2, 1, "sub_id", {}, {}).h
        h4 == ElemPath(h3, 3, "books").h
        h5 == ElemBind(h4, 4, "book_id", {}, {}).h
    IN  ElemRoute(h5, 5, <<"get">>, "get").h

\* Static paths: books with a GET handler, k without Methods, x mounting
\* a second controller class whose root has a GET handler
TreeMount ==
    LET h1 == NewElem(EmptyHeap, "Root", None, NoNode)
        h2 == ElemRoute(h1, 1, <<"get">>, "index").h
        h3 == ElemPath(h2, 1, "books").h
        h4 == ElemRoute(h3, 3, <<"get">>, "list").h
        h5 == ElemPath(h4, 1, "k").h
        h6 == ElemPath(h5, 1, "x").h
        h7 == NewElem(h6, "Root", None, NoNode)
        h8 == ElemRoute(h7, 7, <<"get">>, "index").h
    IN  ElemMount(NewDelegation(h8, "d1", 7), 6, "d1", <<>>, MaxDepth).h

\* A root with a fallback Method that has no function, and a POST handler
\* that takes path_info
TreeFallback ==
    LET h1 == NewElem(EmptyHeap, "Root", None, NoNode)
        h2 == AddMethod(h1, 1, None, None).h
    IN  ElemRoute(h2, 1, <<"post">>, "tail").h

\* A root with two Bindings, the first with a validator, each with a GET
TreeSkip ==
    LET h1 == NewElem(EmptyHeap, "Root", None, NoNode)
        h2 == ElemBind(h1, 1, "a", {}, {}).h
        h3 == SetValidator(h2, 2, "digits").h
        h4 == ElemBind(h3, 1, "b", {}, {}).h
        h5 == ElemRoute(h4, 2, <<"get">>, "index").h
    IN  ElemRoute(h5, 3, <<"get">>, "list").h

\* A path x with a GET handler, a mount restricted to POST and a mount of
\* its own, each of a class whose root has a GET handler
TreeVerbs ==
    LET h1 == NewElem(EmptyHeap, "Root", None, NoNode)
        h2 == ElemPath(h1, 1, "x").h
        h3 == ElemRoute(h2, 2, <<"get">>, "list").h
        h4 == NewElem(h3, "Root", None, NoNode)
        h5 == ElemRoute(h4, 4, <<"get">>, "index").h
        h6 == NewElem(h5, "Root", None, NoNode)
        h7 == ElemRoute(h6, 6, <<"get">>, "index").h
        h8 == ElemMount(NewDelegation(h7, "d1", 4), 2, "d1", <<"post">>,
                        MaxDepth).h
    IN  ElemMount(NewDelegation(h8, "d2", 6), 2, "d2", <<>>, MaxDepth).h

Trees == {TreeBooks, TreeMount, TreeFallback, TreeSkip, TreeVerbs}

\* The request paths, as the segments path_info_peek yields in turn
RequestPaths ==
    { <<>>, <<"books">>, <<"k">>, <<"x">>, <<"zzz">>, <<"1234">>,
      <<"books", "zzz">>, <<"x", "zzz">>, <<"1234", "books", "5678">> }

RequestVerbs == {"GET", "HEAD", "POST", "OPTIONS"}

\* The injector as Controller.__call__ prepares it
PreparedInjector == [request |-> "req", path_info |-> "deferred"]

\* Controller.__call__ up to the call of _micropath_dispatch
InitDispatch ==
    /\ heap \in Trees
    /\ lastOp = [op |-> "init", err |-> "ok"]
    /\ pc = "resolve" /\ ctrl = MainRoot /\ elem = MainRoot
    /\ scriptName = <<>> /\ pathInfo \in RequestPaths
    /\ verb \in RequestVerbs
    /\ inj = PreparedInjector /\ urlvars = <<>>
    /\ pathInfoRequired = TRUE /\ sel = NoSel /\ outcome = NoOutcome
    /\ EngIdle /\ ConcIdle

PathKeys(h, el) == Keys(h.pmap[h.paths[el]])

\* _micropath_resolve: the segment is a static path of the element
ResolveStatic ==
    /\ pc = "resolve" /\ pathInfo # <<>>
    /\ Head(pathInfo) \in PathKeys(heap, elem)
    /\ elem' = Lookup(heap.pmap[heap.paths[elem]], Head(pathInfo))
    /\ scriptName' = Append(scriptName, Head(pathInfo))
    /\ pathInfo' = Tail(pathInfo)
    /\ UNCHANGED <<engVars, concVars>>
    /\ UNCHANGED <<heap, lastOp, pc, ctrl, verb, inj, urlvars,
                   pathInfoRequired, sel, outcome>>

\* _micropath_resolve: the segment is no static path.  elem.bindings is
\* the BindingMap of the element, never None; the attribute validate is
\* looked up on it and the AttributeError leaves _micropath_dispatch, which
\* Controller.__call__ turns into the server-error response
ResolveBindings ==
    /\ pc = "resolve" /\ pathInfo # <<>>
    /\ Head(pathInfo) \notin PathKeys(heap, elem)
    /\ IF heap.bindings[elem] # NoNode
       THEN /\ "validate" \notin BindingMapAttrs
            /\ pc' = "done"
            /\ outcome' = [type |-> "server_error", exc |-> "AttributeError"]
            /\ UNCHANGED pathInfoRequired
       ELSE /\ pc' = "select"
            /\ pathInfoRequired' = TRUE
            /\ UNCHANGED outcome
    /\ UNCHANGED <<engVars, concVars>>
    /\ UNCHANGED <<heap, lastOp, ctrl, elem, scriptName, pathInfo, verb,
                   inj, urlvars, sel>>

\* _micropath_resolve: the loop ran off the end of path_info
ResolveEnd ==
    /\ pc = "resolve" /\ pathInfo = <<>>
    /\ pathInfoRequired' = FALSE
    /\ pc' = "select"
    /\ UNCHANGED <<engVars, concVars>>
    /\ UNCHANGED <<heap, lastOp, ctrl, elem, scriptName, pathInfo, verb,
                   inj, urlvars, sel, outcome>>

\* _micropath_dispatch: func, delegation = self._micropath_delegation(...)
Select ==
    /\ pc = "select"
    /\ LET r == MicropathDelegation(heap, elem, verb)
       IN  IF r.delegation = "RecursionError"
           THEN /\ pc' = "done"
                /\ outcome' = [type |-> "server_error",
                               exc |-> "RecursionError"]
                /\ UNCHANGED sel
           ELSE /\ pc' = "decide" /\ sel' = r /\ UNCHANGED outcome
    /\ UNCHANGED <<engVars, concVars>>
    /\ UNCHANGED <<heap, lastOp, ctrl, elem, scriptName, pathInfo, verb,
                   inj, urlvars, pathInfoRequired>>

\* The test that guards the call of the handler
CallsHandler ==
    sel.func # None /\ (~pathInfoRequired \/ Wants(sel.func, "path_info"))

\* _micropath_dispatch: return inj(func, self)
DispatchCall ==
    /\ pc = "decide" /\ CallsHandler
    /\ outcome' = InjCall(sel.func, inj, pathInfo)
    /\ pc' = "done"
    /\ UNCHANGED <<engVars, concVars>>
    /\ UNCHANGED <<heap, lastOp, ctrl, elem, scriptName, pathInfo, verb,
                   inj, urlvars, pathInfoRequired, sel>>

\* _micropath_dispatch: obj = delegation.get(self), then dispatch to it
DispatchDelegate ==
    /\ pc = "decide" /\ ~CallsHandler /\ sel.delegation # None
    /\ ctrl' = heap.dctrl[sel.delegation]
    /\ elem' = heap.dctrl[sel.delegation]
    /\ pathInfoRequired' = TRUE
    /\ sel' = NoSel
    /\ pc' = "resolve"
    /\ UNCHANGED <<engVars, concVars>>
    /\ UNCHANGED <<heap, lastOp, scriptName, pathInfo, verb, inj, urlvars,
                   outcome>>

MethodKeys(h, el) == Keys(h.mmap[h.methods[el]])

\* _micropath_dispatch: return self.micropath_not_found(...)
DispatchNotFound ==
    /\ pc = "decide" /\ ~CallsHandler /\ sel.delegation = None
    /\ pathInfoRequired \/ MethodKeys(heap, elem) = {}
    /\ outcome' = [type |-> "not_found", path_info |-> pathInfo]
    /\ pc' = "done"
    /\ UNCHANGED <<engVars, concVars>>
    /\ UNCHANGED <<heap, lastOp, ctrl, elem, scriptName, pathInfo, verb,
                   inj, urlvars, pathInfoRequired, sel>>

\* _micropath_dispatch: return self.micropath_options(...)
DispatchOptions ==
    /\ pc = "decide" /\ ~CallsHandler /\ sel.delegation = None
    /\ ~(pathInfoRequired \/ MethodKeys(heap, elem) = {})
    /\ verb = "OPTIONS"
    /\ outcome' = [type |-> "options", verbs |-> MicropathMethods(heap, elem)]
    /\ pc' = "done"
    /\ UNCHANGED <<engVars, concVars>>
    /\ UNCHANGED <<heap, lastOp, ctrl, elem, scriptName, pathInfo, verb,
                   inj, urlvars, pathInfoRequired, sel>>

\* _micropath_dispatch: return self.micropath_not_implemented(...)
DispatchNotImplemented ==
    /\ pc = "decide" /\ ~CallsHandler /\ sel.delegation = None
    /\ ~(pathInfoRequired \/ MethodKeys(heap, elem) = {})
    /\ verb # "OPTIONS"
    /\ outcome' = [type |-> "not_implemented", verb |-> verb]
    /\ pc' = "done"
    /\ UNCHANGED <<engVars, concVars>>
    /\ UNCHANGED <<heap, lastOp, ctrl, elem, scriptName, pathInfo, verb,
                   inj, urlvars, pathInfoRequired, sel>>

NextDispatch ==
    \/ ResolveStatic
    \/ ResolveBindings
    \/ ResolveEnd
    \/ Select
    \/ DispatchCall
    \/ DispatchDelegate
    \/ DispatchNotFound
    \/ DispatchOptions
    \/ DispatchNotImplemented

SpecDispatch == InitDispatch /\ [][NextDispatch]_vars

\* ------------------------------------------------------------------------
\* Properties of the dispatcher (SpecDispatch)
\* ------------------------------------------------------------------------
\* The validator functions of the controllers: the value each returns for
\* a segment it accepts; a segment outside the domain raises SkipBinding
ValidatorTable(f) ==
    CASE f = "digits" -> [seg \in {"1234", "5678"} |-> "#" \o seg]

\* Binding.validate: the validator's value, or the text without validator
Validate(h, b, value) ==
    IF h.valid[b] = None THEN [skip |-> FALSE, value |-> value]
    ELSE IF value \in DOMAIN ValidatorTable(h.valid[b])
    THEN [skip |-> FALSE, value |-> ValidatorTable(h.valid[b])[value]]
    ELSE [skip |-> TRUE, value |-> None]

\* The request path as it was received
FullPath == scriptName \o pathInfo

\* urlvars as a set of <<ident, value>> pairs
SinkOf(f) == {<<k, f[k]>> : k \in DOMAIN f}

\* The walk of the documented dispatcher: a static child first, else the
\* first Binding in the order of the binding map whose validator accepts
RECURSIVE DocumentedWalk(_, _, _, _)
DocumentedWalk(h, n, segs, sink) ==
    IF segs = <<>> THEN [node |-> n, rest |-> <<>>, sink |-> sink]
    ELSE IF Head(segs) \in PathKeys(h, n)
    THEN DocumentedWalk(h, Lookup(h.pmap[h.paths[n]], Head(segs)),
                        Tail(segs), sink)
    ELSE LET m == h.bindings[n]
             Accepts(id) == ~Validate(h, Lookup(h.bmap[m], id), Head(segs)).skip
             acc == SelectSeq(ComputeOrder(h, m), Accepts)
         IN  IF acc = <<>> THEN [node |-> n, rest |-> segs, sink |-> sink]
             ELSE LET b == Lookup(h.bmap[m], Head(acc))
                  IN  DocumentedWalk(h, b, Tail(segs),
                          sink \cup {<<Head(acc),
                                       Validate(h, b, Head(segs)).value>>})

\* What _micropath_delegation yields at the element the walk ended at
FinalSel == MicropathDelegation(heap, elem, verb)

\* C1: GET /1234/books/5678 on root -> Binding(sub_id) -> Path(books) ->
\* Binding(book_id) -> Method(GET) ends at the book_id node with the path
\* exhausted and invokes the GET handler with sub_id = 1234 and
\* book_id = 5678 in the sink.
C1_BooksExample ==
    (pc = "done" /\ heap = TreeBooks /\ verb = "GET"
         /\ FullPath = <<"1234", "books", "5678">>)
    => /\ pathInfo = <<>>
       /\ elem = 5
       /\ SinkOf(urlvars) = {<<"sub_id", "1234">>, <<"book_id", "5678">>}
       /\ outcome.type = "called"
       /\ outcome.func = "get"
       /\ outcome.kw.sub_id = "1234" /\ outcome.kw.book_id = "5678"

\* C2: after the walk the selected handler is invoked iff it exists and
\* the path is exhausted or the handler wants path_info; a handler that
\* exists while path remains and that does not want path_info is not
\* invoked, and without a delegation the outcome is not-found.
C2_HandlerInvokedIff ==
    pc = "done" =>
        LET f == FinalSel.func
            invocable == f # None
                           /\ (pathInfo = <<>> \/ Wants(f, "path_info"))
        IN  /\ (outcome.type = "called") <=> invocable
            /\ (f # None /\ pathInfo # <<>> /\ ~Wants(f, "path_info")
                    /\ FinalSel.delegation = None)
               => outcome.type = "not_found"

\* C3: with no invocable handler and no delegation the dispatch reports
\* not-found when path remains or the node has no Methods, and
\* not-implemented for the verb when the path is exhausted, the node has a
\* Method and the verb is not OPTIONS; every dispatch has one of the
\* documented outcomes.
C3_NotFoundOrNotImplemented ==
    pc = "done" =>
        LET f == FinalSel.func
            invocable == f # None
                           /\ (pathInfo = <<>> \/ Wants(f, "path_info"))
            keys == MethodKeys(heap, elem)
        IN  /\ outcome.type \in {"called", "not_found", "options",
                                 "not_implemented"}
            /\ (~invocable /\ FinalSel.delegation = None)
               => /\ (pathInfo # <<>> \/ keys = {})
                     => outcome.type = "not_found"
                  /\ (pathInfo = <<>> /\ keys # {} /\ verb # "OPTIONS")
                     => outcome = [type |-> "not_implemented",
                                   verb |-> verb]

\* The verb set the documentation gives for a node with these Method keys
DocumentedVerbs(keys) ==
    {v \in micropath_methods \cup (keys \ {None}) :
        \/ v \in keys
        \/ None \in keys
        \/ v = "HEAD" /\ "GET" \in keys
        \/ v = "OPTIONS"}

\* C4: an OPTIONS request that reaches a node with the path exhausted, at
\* least one Method and no Method or delegation handling OPTIONS reports
\* the non-null verb keys of the node, plus HEAD, GET, PUT, POST, DELETE
\* and OPTIONS if there is a fallback Method, plus HEAD if GET is in the
\* set, plus OPTIONS.
C4_OptionsVerbSet ==
    (pc = "done" /\ verb = "OPTIONS" /\ pathInfo = <<>>
         /\ MethodKeys(heap, elem) # {}
         /\ FinalSel.func = None /\ FinalSel.delegation = None)
    => outcome = [type |-> "options",
                  verbs |-> DocumentedVerbs(MethodKeys(heap, elem))]

\* OPTIONS answered at a node whose only Method is GET
C4_Witness ==
    /\ pc = "done" /\ verb = "OPTIONS"
    /\ MethodKeys(heap, elem) = {"GET"}
    /\ outcome.type = "options"
    /\ outcome.verbs = {"GET", "HEAD", "OPTIONS"}

\* C5: a segment that is no static child is offered to the node's
\* Bindings in the order of the binding map; a Binding that skips is
\* passed over, the first that accepts is recorded and descended into, and
\* the walk stops with path left over only when every Binding declined.
C5_BindingFallback ==
    (pc = "done" /\ ctrl = MainRoot) =>
        LET w == DocumentedWalk(heap, MainRoot, FullPath, {})
        IN  /\ elem = w.node
            /\ pathInfo = w.rest
            /\ SinkOf(urlvars) = w.sink

\* ------------------------------------------------------------------------
\* Properties of merge (SpecMerge)
\* ------------------------------------------------------------------------
MapNames == {"paths", "bindings", "methods"}

\* The entries of the map an element's attribute refers to, as a set
Entries(h, which, n) == Range(MapOf(h, which, AttrOf(h, which, n)))
ChildKeys(h, which, n) == Keys(MapOf(h, which, AttrOf(h, which, n)))
Children(h, n) ==
    UNION {Values(MapOf(h, which, AttrOf(h, which, n))) : which \in MapNames}

\* Everything an element object holds
Fields(h, n) ==
    <<h.kind[n], h.ident[n], h.parent[n], h.master[n], h.deleg[n],
      h.func[n], h.paths[n], h.bindings[n], h.methods[n]>>

\* Two different nodes, neither merged into another before
Unmerged(h, s, o) ==
    /\ s \in Allocated(h) /\ o \in Allocated(h) /\ s # o
    /\ h.master[s] = NoNode /\ h.master[o] = NoNode

\* The operands the union rule speaks of: same kind, same ident, equal
\* parents, no child key in common, delegations not in conflict
Disjoint(h, s, o) ==
    /\ Unmerged(h, s, o)
    /\ h.kind[s] = h.kind[o] /\ h.ident[s] = h.ident[o]
    /\ h.parent[s] = h.parent[o]
    /\ \A which \in MapNames :
           ChildKeys(h, which, s) \cap ChildKeys(h, which, o) = {}
    /\ ~(h.deleg[s] # None /\ h.deleg[o] # None /\ h.deleg[s] # h.deleg[o])

\* What s.merge(o) leaves behind, compared with the heap before
UnionResult(h, s, o, r) ==
    /\ r.err = "ok"
    /\ \A which \in MapNames :
           /\ Entries(r.h, which, s)
                  = Entries(h, which, s) \cup Entries(h, which, o)
           /\ AttrOf(r.h, which, s) = AttrOf(h, which, s)
           /\ AttrOf(r.h, which, o) = AttrOf(r.h, which, s)
    /\ \A c \in Children(h, o) : r.h.parent[c] = s
    /\ \A c \in Children(h, s) : Fields(r.h, c) = Fields(h, c)
    /\ r.h.parent[s] = h.parent[s] /\ r.h.parent[o] = h.parent[o]
    /\ r.h.master[o] = s /\ r.h.master[s] = NoNode

\* C8: merging two same-kind, same-ident nodes with equal parents and no
\* child key in common succeeds; the survivor's three maps are the union
\* of both operands' maps, every child of the absorbed node has the
\* survivor as parent, the survivor's own children and both operands'
\* parents are unchanged, and the absorbed node shares the survivor's maps
\* with the survivor as its master.
C8_MergeUnion ==
    \A s, o \in Node :
        Disjoint(heap, s, o)
        => UnionResult(heap, s, o, Merge(heap, s, o, MaxDepth))

\* A merge has just joined two nodes that had children of their own
C8_Witness ==
    /\ lastOp = [op |-> "merge", err |-> "ok"]
    /\ \E s, o \in Allocated(heap) :
           /\ s # o /\ heap.master[o] = s /\ heap.master[s] = NoNode
           /\ heap.paths[o] = heap.paths[s]
           /\ Cardinality(ChildKeys(heap, "paths", s)) >= 2
           /\ \A c \in Children(heap, s) : heap.parent[c] = s
           /\ \E c \in Values(heap.pmap[o]) :
                  c \in Children(heap, s) /\ heap.parent[c] = s
           /\ \E c \in Values(heap.pmap[s]) : heap.parent[c] = s

\* The operands merge rejects: different idents, different kinds, or two
\* different delegations
Rejected(h, s, o) ==
    /\ Unmerged(h, s, o)
    /\ \/ h.ident[s] # h.ident[o]
       \/ h.kind[s] # h.kind[o]
       \/ (h.deleg[s] # None /\ h.deleg[o] # None
               /\ h.deleg[s] # h.deleg[o])

\* C9: merging two nodes of different idents, of different kinds or with
\* two different delegations raises ValueError and changes nothing: child
\* maps, parents, delegations and masters are as before.
C9_MergeErrorsChangeNothing ==
    \A s, o \in Node :
        Rejected(heap, s, o)
        => LET r == Merge(heap, s, o, MaxDepth)
           IN  r.err = "ValueError" /\ r.h = heap

\* A merge of two nodes with different delegations has just been refused
C9_Witness ==
    /\ lastOp = [op |-> "merge", err |-> "ValueError"]
    /\ \E s, o \in Allocated(heap) :
           /\ Rejected(heap, s, o)
           /\ heap.kind[s] = heap.kind[o] /\ heap.ident[s] = heap.ident[o]
           /\ Children(heap, s) # {} /\ Children(heap, o) # {}

OneParent(h, s, o) ==
    /\ Unmerged(h, s, o)
    /\ h.kind[s] = h.kind[o] /\ h.ident[s] = h.ident[o]
    /\ ~(h.deleg[s] # None /\ h.deleg[o] # None /\ h.deleg[s] # h.deleg[o])
    /\ (h.parent[s] # NoNode) # (h.parent[o] # NoNode)

\* C11: merging two nodes of which exactly one has a parent raises
\* ValueError and merges nothing: no parent is merged and both nodes keep
\* their maps, parents, delegations and masters.
C11_OneParentRejected ==
    \A s, o \in Node :
        OneParent(heap, s, o)
        => LET r == Merge(heap, s, o, MaxDepth)
           IN  r.err = "ValueError" /\ r.h = heap

\* A merge of a child with a parentless node of its kind and ident, each
\* with its own map contents, has just been refused
C11_Witness ==
    /\ lastOp = [op |-> "merge", err |-> "ValueError"]
    /\ \E s, o \in Allocated(heap) :
           /\ OneParent(heap, s, o)
           /\ Children(heap, s) \cup Children(heap, o) # {}

\* ------------------------------------------------------------------------
\* The injection engine: WantSignature (micropath/injector.py)

MaxArgs == 3

ArgNames == {"self", "sub_id", "other"}

\* The functions called: f_opt(self, sub_id=None), f_req(self, sub_id),
\* f_only(self, *, other), f_kw(self, **kwargs), f_pos(*args, other=None)
\* and prod(), which produces a deferred value
Funcs == {"f_opt", "f_req", "f_only", "f_kw", "f_pos"}

\* WantSignature._getsig: order, required, optional, all_pos, all_kw
GetSig(f) ==
    CASE f = "f_opt" ->
           [arg_order |-> <<"self", "sub_id">>, required |-> {"self"},
            optional |-> {"sub_id"}, all_pos |-> FALSE, all_kw |-> FALSE]
      [] f = "f_req" ->
           [arg_order |-> <<"self", "sub_id">>,
            required |-> {"self", "sub_id"},
            optional |-> {}, all_pos |-> FALSE, all_kw |-> FALSE]
      [] f = "f_only" ->
           [arg_order |-> <<"self">>, required |-> {"self", "other"},
            optional |-> {}, all_pos |-> FALSE, all_kw |-> FALSE]
      [] f = "f_kw" ->
           [arg_order |-> <<"self">>, required |-> {"self"},
            optional |-> {}, all_pos |-> FALSE, all_kw |-> TRUE]
      [] f = "f_pos" ->
           [arg_order |-> <<>>, required |-> {},
            optional |-> {"other"}, all_pos |-> TRUE, all_kw |-> FALSE]
      [] f = "prod" ->
           [arg_order |-> <<>>, required |-> {},
            optional |-> {}, all_pos |-> FALSE, all_kw |-> FALSE]

\* WantSignature.from_func: the signature is built once and cached on the
\* function; all_args is the one attribute a call changes
FromFunc(sigs, f) ==
    IF f \in DOMAIN sigs THEN sigs
    ELSE (f :> (GetSig(f).required \cup GetSig(f).optional)) @@ sigs

\* The positional arguments of a call with n of them
Args(n) == [i \in 1..n |-> IF i = 1 THEN "selfObj" ELSE "p"]

\* The available values and the overrides with the given names
AvailableValue(k) ==
    CASE k = "sub_id" -> "1234" [] k = "other" -> "x" [] OTHER -> "s"
Available(D) == [k \in D |-> AvailableValue(k)]
Overrides(D) == [k \in D |-> "over"]

Raised(f, n, given, msg) ==
    [type |-> "TypeError", op |-> "call", key |-> None, func |-> f,
     args |-> Args(n), given |-> given, msg |-> msg]
Called(f, n, given, kw) ==
    [type |-> "called", op |-> "call", key |-> None, func |-> f,
     args |-> Args(n), given |-> given, kw |-> kw]

\* Too many positional arguments: the first test of __call__
TooMany(sig, n) == ~sig.all_pos /\ n > Len(sig.arg_order)

\* set(self.arg_order[:len(args)])
Satisfied(sig, n) ==
    {sig.arg_order[i] : i \in 1..(IF n < Len(sig.arg_order)
                                  THEN n ELSE Len(sig.arg_order))}

\* desired = self.all_args, extended and reduced in place
Desired(sig, allArgs, n, kwargs, additional) ==
    (allArgs \cup (IF sig.all_kw
                   THEN DOMAIN additional \cup DOMAIN kwargs ELSE {}))
        \ Satisfied(sig, n)

\* Keyword arguments in which an available value wins over an override
RealKwAvailableFirst(desired, kwargs, additional) ==
    [key \in {k \in desired : k \in DOMAIN additional \/ k \in DOMAIN kwargs}
        |-> IF key \in DOMAIN kwargs THEN kwargs[key]
            ELSE additional[key]]

\* The keyword arguments built from the desired names
RealKw(desired, kwargs, additional) ==
    [key \in {k \in desired : k \in DOMAIN additional \/ k \in DOMAIN kwargs}
        |-> IF key \in DOMAIN additional THEN additional[key]
            ELSE kwargs[key]]

\* A test that misses no required argument
MissingNone(sig, real_kw, satisfied) == {}

\* missing = self.required - set(real_kw) - satisfied
Missing(sig, real_kw, satisfied) ==
    (sig.required \ DOMAIN real_kw) \ satisfied

\* The end of __call__: the test for missing arguments and the call
CallOrMiss(f, n, given, real_kw, missing) ==
    IF missing # {}
    THEN Raised(f, n, given, "missing required keyword arguments")
    ELSE Called(f, n, given, real_kw)

\* WantSignature.__call__(args, kwargs, additional) of the signature cached
\* on f, with the cache it leaves behind
SigCall(sigs, f, n, kwargs, additional) ==
    LET sig == GetSig(f)
        given == [any |-> DOMAIN additional \cup DOMAIN kwargs,
                  both |-> DOMAIN additional \cap DOMAIN kwargs]
    IN  IF TooMany(sig, n)
        THEN [signatures |-> sigs,
              res |-> Raised(f, n, given, "too many positional arguments")]
        ELSE LET desired == Desired(sig, sigs[f], n, kwargs, additional)
                 real_kw == RealKw(desired, kwargs, additional)
             IN  [signatures |-> [sigs EXCEPT ![f] = desired],
                  res |-> CallOrMiss(f, n, given, real_kw,
                                     Missing(sig, real_kw,
                                             Satisfied(sig, n)))]

\* from_func followed by the call of the signature
Invoke(sigs, f, n, kwargs, additional) ==
    SigCall(FromFunc(sigs, f), f, n, kwargs, additional)

Returned(r) == signatures' = r.signatures /\ result' = r.res

InitSignature ==
    /\ heap = EmptyHeap /\ lastOp = [op |-> "init", err |-> "ok"]
    /\ DispIdle

\* WantSignature.from_func(f)(args, kwargs, additional).  The signatures
\* of two functions share nothing, so a behaviour follows the calls of one
\* function.
ActInvoke(f, n, avail, over) ==
    /\ DOMAIN signatures \subseteq {f}
    /\ Returned(Invoke(signatures, f, n, Available(avail), Overrides(over)))
    /\ UNCHANGED <<routeVars, concVars>>
    /\ UNCHANGED <<available, deferred, keySet, keep, invoked, entered>>

NextSignature ==
    \E f \in Funcs, n \in 0..MaxArgs, avail, over \in SUBSET ArgNames :
        ActInvoke(f, n, avail, over)

SpecSignature == InitSignature /\ [][NextSignature]_vars

\* ------------------------------------------------------------------------
\* Properties of the signature call (SpecSignature)

\* The declared names not satisfied positionally that are given, each with
\* its override or else its available value
ExpectedKw(f, n, kwargs, additional) ==
    LET declared == GetSig(f).required \cup GetSig(f).optional
        names == {k \in declared \ Satisfied(GetSig(f), n) :
                      k \in DOMAIN additional \/ k \in DOMAIN kwargs}
    IN  [k \in names |-> IF k \in DOMAIN additional THEN additional[k]
                         ELSE kwargs[k]]

\* C12: a function without a catch-all keyword slot is called with exactly
\* the keyword arguments whose names it declares (required or optional),
\* that are not satisfied positionally and that are present in the
\* overrides or the available values; no other available key is passed.
C12_OnlyDeclaredKeywords ==
    \A f \in Funcs, n \in 0..MaxArgs, avail, over \in SUBSET ArgNames :
        LET r == Invoke(signatures, f, n, Available(avail),
                        Overrides(over)).res
        IN  (~GetSig(f).all_kw /\ ~TooMany(GetSig(f), n))
            => \/ r.type = "TypeError"
                  /\ \E k \in GetSig(f).required \ Satisfied(GetSig(f), n) :
                         k \notin avail \cup over
               \/ r.type = "called"
                  /\ r.kw = ExpectedKw(f, n, Available(avail),
                                       Overrides(over))

\* C13: a call with more positional arguments than the declared order of a
\* function without a catch-all positional slot raises TypeError, and so
\* does a call in which a required name that is not satisfied positionally
\* is in neither the overrides nor the available values; the function is
\* not called in either case.
C13_CallErrors ==
    \A f \in Funcs, n \in 0..MaxArgs, avail, over \in SUBSET ArgNames :
        LET r == Invoke(signatures, f, n, Available(avail),
                        Overrides(over)).res
            sig == GetSig(f)
        IN  /\ TooMany(sig, n)
               => r.type = "TypeError"
                  /\ r.msg = "too many positional arguments"
            /\ (~TooMany(sig, n)
                /\ \E k \in sig.required \ Satisfied(sig, n) :
                       k \notin avail \cup over)
               => r.type = "TypeError"
                  /\ r.msg = "missing required keyword arguments"

\* f_only(self, *, other) has just been called with self alone where other
\* was given in no way
C13_Witness ==
    /\ result.type = "TypeError" /\ result.func = "f_only"
    /\ result.args = <<"selfObj">>
    /\ "other" \notin result.given.any
    /\ result.msg = "missing required keyword arguments"

\* ------------------------------------------------------------------------
\* The injection engine: Injector and InjectorCleanup (micropath/injector.py)

InjKeys == {"sub_id", "other"}
Producers == {"prod"}
Consumers == {"f_opt", "f_req"}

\* What a producer returns
Produce(p) == "made"

\* The Injector and the signature cache as one value
Inj ==
    [signatures |-> signatures, available |-> available,
     deferred |-> deferred, keySet |-> keySet, invoked |-> invoked]

Count(inv, k) == IF k \in DOMAIN inv THEN inv[k] ELSE 0

Without(d, k) == [x \in DOMAIN d \ {k} |-> d[x]]

KeyError(op, key) == [type |-> "KeyError", op |-> op, key |-> key]
Value(op, key, v) == [type |-> "value", op |-> op, key |-> key, value |-> v]
NoValue(op, key) == [type |-> "done", op |-> op, key |-> key]

\* self._available[key] = self(self._deferred[key]) for the keys in lazy:
\* each producer is called through the Injector, which caches its
\* signature, and its value is kept
Memoized(st, lazy) ==
    [st EXCEPT
        !.available = [k \in lazy |-> Produce(st.deferred[k])] @@ @,
        !.invoked = [k \in lazy |-> Count(st.invoked, k) + 1] @@ @,
        !.signatures =
            [p \in {st.deferred[k] : k \in lazy} \ DOMAIN @
                |-> GetSig(p).required \cup GetSig(p).optional] @@ @]

\* Injector.__getitem__
GetItem(st, key) ==
    IF key \notin st.keySet
    THEN [st |-> st, res |-> KeyError("getitem", key)]
    ELSE IF key \in DOMAIN st.available
    THEN [st |-> st, res |-> Value("getitem", key, st.available[key])]
    ELSE IF key \notin DOMAIN st.deferred
    THEN [st |-> st, res |-> KeyError("getitem", key)]
    ELSE [st |-> Memoized(st, {key}),
          res |-> Value("getitem", key, Produce(st.deferred[key]))]

\* Mapping.__contains__: self[key] succeeds
Contains(st, key) == GetItem(st, key).res.type = "value"

\* Injector.__setitem__
SetValue(st, key, value) ==
    [st EXCEPT !.available = (key :> value) @@ @,
               !.keySet = @ \cup {key},
               !.invoked = Without(@, key)]

\* Injector.__delitem__
DelItem(st, key) ==
    IF key \notin st.keySet
    THEN [st |-> st, res |-> KeyError("delitem", key)]
    ELSE [st |-> [st EXCEPT !.available = Without(@, key),
                            !.deferred = Without(@, key),
                            !.keySet = @ \ {key},
                            !.invoked = Without(@, key)],
          res |-> NoValue("delitem", key)]

\* Injector.set_deferred
SetDeferred(st, key, func) ==
    [st EXCEPT !.deferred = (key :> func) @@ @,
               !.invoked = Without(@, key)]

\* The Injector as the kwargs of a signature call, once the keys the call
\* looks up have been read
View(st) == [k \in st.keySet \cap DOMAIN st.available |-> st.available[k]]

\* The keys a signature call reads from the Injector before they have a
\* value: `key in additional or key in kwargs` asks the Injector only for
\* the desired keys the overrides lack
Lazy(st, desired, additional) ==
    {k \in (desired \ DOMAIN additional) \cap st.keySet :
         k \notin DOMAIN st.available /\ k \in DOMAIN st.deferred}

CallResult(st, r) == [st |-> [st EXCEPT !.signatures = r.signatures],
                      res |-> r.res]

CallRead(st, f, n, additional) ==
    CallResult(st, SigCall(st.signatures, f, n, View(st), additional))

\* Injector.__call__(func, *args, **kwargs)
InjectorCall(st, f, n, additional) ==
    LET sigs == FromFunc(st.signatures, f)
        desired == Desired(GetSig(f), sigs[f], n,
                           [k \in st.keySet |-> TRUE], additional)
    IN  CallRead(Memoized([st EXCEPT !.signatures = sigs],
                          Lazy(st, desired, additional)),
                 f, n, additional)

\* InjectorCleanup.__exit__: for key in self.injector._keys - self.keep
DelAdded(st, kp) ==
    [st EXCEPT !.available = [x \in DOMAIN @ \ (st.keySet \ kp) |-> @[x]],
               !.deferred = [x \in DOMAIN @ \ (st.keySet \ kp) |-> @[x]],
               !.invoked = [x \in DOMAIN @ \ (st.keySet \ kp) |-> @[x]],
               !.keySet = @ \cap kp]

Becomes(st) ==
    /\ signatures' = st.signatures /\ available' = st.available
    /\ deferred' = st.deferred /\ keySet' = st.keySet
    /\ invoked' = st.invoked

Yields(r) == Becomes(r.st) /\ result' = r.res

InitInjector ==
    /\ heap = EmptyHeap /\ lastOp = [op |-> "init", err |-> "ok"]
    /\ DispIdle

\* injector[key] = value
ActSetItem(key) ==
    /\ Becomes(SetValue(Inj, key, AvailableValue(key)))
    /\ result' = NoValue("setitem", key)
    /\ UNCHANGED <<routeVars, concVars, keep, entered>>

\* del injector[key]
ActDelItem(key) ==
    /\ Yields(DelItem(Inj, key))
    /\ UNCHANGED <<routeVars, concVars, keep, entered>>

\* injector.set_deferred(key, func)
ActSetDeferred(key, func) ==
    /\ Becomes(SetDeferred(Inj, key, func))
    /\ result' = NoValue("set_deferred", key)
    /\ UNCHANGED <<routeVars, concVars, keep, entered>>

\* injector[key]
ActGetItem(key) ==
    /\ Yields(GetItem(Inj, key))
    /\ UNCHANGED <<routeVars, concVars, keep, entered>>

\* injector(func, obj)
ActCall(f) ==
    /\ Yields(InjectorCall(Inj, f, 1, <<>>))
    /\ UNCHANGED <<routeVars, concVars, keep, entered>>

\* with injector.cleanup(): the scope is entered
ActEnter ==
    /\ ~keep.scope
    /\ keep' = Kept(keySet) /\ entered' = DOMAIN deferred
    /\ result' = [type |-> "entered", op |-> "enter", key |-> None]
    /\ UNCHANGED <<routeVars, concVars, signatures, available, deferred,
                   keySet, invoked>>

\* The scope is left, by its end or by an exception; __exit__ returns
\* None, so the exception goes on
ActExit(exc) ==
    /\ keep.scope
    /\ Becomes(DelAdded(Inj, keep.keys))
    /\ keep' = NoKeep /\ entered' = {}
    /\ result' = [type |-> "exited", op |-> "exit", key |-> None,
                  raised |-> exc]
    /\ UNCHANGED <<routeVars, concVars>>

NextInjector ==
    \/ \E key \in InjKeys : ActSetItem(key)
    \/ \E key \in InjKeys : ActDelItem(key)
    \/ \E key \in InjKeys, func \in Producers : ActSetDeferred(key, func)
    \/ \E key \in InjKeys : ActGetItem(key)
    \/ \E f \in Consumers : ActCall(f)
    \/ ActEnter
    \/ \E exc \in {None, "Exception"} : ActExit(exc)

SpecInjector == InitInjector /\ [][NextInjector]_vars

\* ------------------------------------------------------------------------
\* Properties of the Injector (SpecInjector)

\* The keys supplied as a deferred producer and with no value
DeferredOnly == {k \in DOMAIN deferred : k \notin DOMAIN available}

\* C14: a key supplied only by set_deferred is a key of the Injector: the
\* membership test is true, reading it calls the producer and returns what
\* it produced, and a function that declares the key is called with it.
C14_DeferredKeyIsKey ==
    \A k \in DeferredOnly :
        /\ Contains(Inj, k)
        /\ GetItem(Inj, k).res = Value("getitem", k, Produce(deferred[k]))
        /\ k = "sub_id"
           => LET r == InjectorCall(Inj, "f_opt", 1, <<>>).res
              IN  r.type = "called" /\ k \in DOMAIN r.kw

\* C15: while a key is neither set nor deleted, its producer is called at
\* most once and every read of the key returns the value of that one call;
\* the producer of a key with an eager value is never called.
C15_ProducerOnce ==
    /\ \A k \in InjKeys : Count(invoked, k) <= 1
    /\ (result.op = "getitem"
        /\ result.key \in DOMAIN deferred \cup DOMAIN available)
       => /\ result.type = "value"
          /\ result.value = IF Count(invoked, result.key) = 0
                            THEN AvailableValue(result.key)
                            ELSE Produce(deferred[result.key])

\* C16: when a cleanup scope is left, normally or by an exception, every
\* key added during the scope as a value or as a producer is gone with its
\* value and its producer, every key the Injector had at entry is still
\* there, and the exception goes on.
C16_CleanupRemovesAdded ==
    [][(keep.scope /\ ~keep'.scope)
       => /\ \A k \in InjKeys \ (keep.keys \cup entered) :
                 /\ k \notin keySet'
                 /\ k \notin DOMAIN available'
                 /\ k \notin DOMAIN deferred'
          /\ \A k \in keep.keys \cap keySet :
                 k \in keySet' /\ available'[k] = available[k]
          /\ \A k \in entered \cap DOMAIN deferred :
                 k \in DOMAIN deferred' /\ deferred'[k] = deferred[k]
          /\ result'.raised \in {None, "Exception"}]_vars

\* ------------------------------------------------------------------------
\* Concurrent requests and the sub-controllers of one owner
\* (Controller.__init__, Delegation.get)

MaxThreads == 2

Threads == 1..MaxThreads

ThreadIdle == [pc |-> "idle", deleg |-> None]

\* The owner's class mounts every Delegation of Deleg in its tree, on
\* paths a request can walk; ControllerMeta.__new__ collects into
\* _micropath_delegations the Delegations that are values of the class
\* namespace, which a mount whose result the class body does not assign
\* is not
InitConcurrent ==
    /\ heap = EmptyHeap /\ lastOp = [op |-> "init", err |-> "ok"]
    /\ DispOnly /\ EngIdle /\ OwnIdle
    /\ owner = "new" /\ delegations \in SUBSET Deleg
    /\ dcache = [d \in Deleg |-> NoInst]
    /\ built = [d \in Deleg |-> 0]
    /\ seen = [d \in Deleg |-> {}]
    /\ threads = [t \in Threads |-> ThreadIdle]

\* self._cache[key] = self.construct(obj): one more sub-controller
Construct(cache, count, d) ==
    [dcache |-> [cache EXCEPT ![d] = count[d] + 1],
     built |-> [count EXCEPT ![d] = @ + 1]]

\* Controller.__init__ of the owner, before any request is served:
\* deleg.get(self) for each of _micropath_delegations
ActOwnerInit ==
    /\ owner = "new"
    /\ owner' = "ready"
    /\ dcache' = [d \in Deleg |-> IF d \in delegations
                                  THEN Construct(dcache, built, d).dcache[d]
                                  ELSE dcache[d]]
    /\ built' = [d \in Deleg |-> IF d \in delegations
                                 THEN Construct(dcache, built, d).built[d]
                                 ELSE built[d]]
    /\ UNCHANGED <<routeVars, engVars, delegations, seen, threads, ownVars>>

\* A request reaches the element Delegation d is mounted at, and
\* _micropath_dispatch calls delegation.get(self)
ThreadGet(t, d) ==
    /\ owner = "ready" /\ threads[t].pc = "idle"
    /\ threads' = [threads EXCEPT ![t] = [pc |-> "check", deleg |-> d]]
    /\ UNCHANGED <<routeVars, engVars, owner, delegations, dcache, built,
                   seen, ownVars>>

\* if key not in self._cache
ThreadCheck(t) ==
    /\ threads[t].pc = "check"
    /\ threads' = [threads EXCEPT ![t].pc =
                       IF dcache[threads[t].deleg] = NoInst
                       THEN "construct" ELSE "return"]
    /\ UNCHANGED <<routeVars, engVars, owner, delegations, dcache, built,
                   seen, ownVars>>

\* self._cache[key] = self.construct(obj) and the two attributes
ThreadConstruct(t) ==
    /\ threads[t].pc = "construct"
    /\ dcache' = Construct(dcache, built, threads[t].deleg).dcache
    /\ built' = Construct(dcache, built, threads[t].deleg).built
    /\ threads' = [threads EXCEPT ![t].pc = "return"]
    /\ UNCHANGED <<routeVars, engVars, owner, delegations, seen, ownVars>>

\* return self._cache[key]
ThreadReturn(t) ==
    /\ threads[t].pc = "return"
    /\ seen' = [seen EXCEPT ![threads[t].deleg] =
                    @ \cup {dcache[threads[t].deleg]}]
    /\ threads' = [threads EXCEPT ![t] = ThreadIdle]
    /\ UNCHANGED <<routeVars, engVars, owner, delegations, dcache, built,
                   ownVars>>

NextConcurrent ==
    \/ ActOwnerInit
    \/ \E t \in Threads, d \in Deleg : ThreadGet(t, d)
    \/ \E t \in Threads : ThreadCheck(t)
    \/ \E t \in Threads : ThreadConstruct(t)
    \/ \E t \in Threads : ThreadReturn(t)

SpecConcurrent == InitConcurrent /\ [][NextConcurrent]_vars

\* ------------------------------------------------------------------------
\* Properties of concurrent dispatch (SpecConcurrent)

\* C17: once Controller.__init__ has built the owner, every Delegation a
\* dispatch can reach in the owner's tree has a cache entry for the owner,
\* so under any interleaving of requests no sub-controller is constructed
\* during dispatch or constructed twice, and all requests get the same one.
C17_EagerDelegations ==
    owner = "ready"
    => \A d \in Deleg :
           /\ dcache[d] # NoInst
           /\ built[d] = 1
           /\ Cardinality(seen[d]) <= 1

\* ------------------------------------------------------------------------
\* Reverse routing: Request.url_for (micropath/request.py)

\* Binding.formatter(func): the formatter is set once
SetFormatter(h, b, f) ==
    IF h.fmt[b] # None THEN Fail(h, "ValueError")
    ELSE Ok([h EXCEPT !.fmt[b] = f])

Digit(d) ==
    CASE d = 0 -> "0" [] d = 1 -> "1" [] d = 2 -> "2" [] d = 3 -> "3"
      [] d = 4 -> "4" [] d = 5 -> "5" [] d = 6 -> "6" [] d = 7 -> "7"
      [] d = 8 -> "8" [] d = 9 -> "9"

\* six.text_type(value) of a natural number
RECURSIVE TextType(_)
TextType(v) ==
    IF v < 10 THEN Digit(v) ELSE TextType(v \div 10) \o Digit(v % 10)

\* The formatter functions of the controllers: tag(self, value) returns
\* 'b' + str(value)
Formatter(f, value) ==
    CASE f = "tag" -> "b" \o TextType(value)

\* Binding.format
Format(h, b, value) ==
    IF h.fmt[b] # None THEN Formatter(h.fmt[b], value) ELSE TextType(value)

\* The controller classes of reverse routing.  As in the functional test:
\* a subscriber class with Binding(sub_id) -> Path(books) mounting a book
\* class, whose Binding(book_id) has a GET handler
TreeSimple ==
    LET h1 == NewElem(EmptyHeap, "Root", None, NoNode)
        h2 == ElemRoute(h1, 1, <<"get">>, "index").h
        h3 == ElemBind(h2, 1, "sub_id", {}, {}).h
        h4 == ElemPath(h3, 3, "books").h
        h5 == NewElem(h4, "Root", None, NoNode)
        h6 == ElemBind(h5, 5, "book_id", {}, {}).h
        h7 == ElemRoute(h6, 6, <<"get">>, "get").h
        h8 == ElemRoute(h7, 5, <<"get">>, "list").h
    IN  ElemMount(NewDelegation(h8, "d1", 5), 4, "d1", <<>>, MaxDepth).h

\* The books tree of one class, its Binding(book_id) with a formatter
TreeFormat == SetFormatter(TreeBooks, 5, "tag").h

UrlTrees == {TreeSimple, TreeFormat, TreeMount}

UrlKeys == {"sub_id", "book_id"}
UrlValues == {7, 1234, 5678}

\* The handlers of the classes: the Methods that have a function
Handlers(h) ==
    {m \in 1..h.alloc : h.kind[m] = "Method" /\ h.func[m] # None}

\* The root an element hangs from
RECURSIVE TopOf(_, _, _)
TopOf(h, n, fuel) ==
    IF h.parent[n] = NoNode \/ fuel = 0 THEN n
    ELSE TopOf(h, h.parent[n], fuel - 1)

\* A controller instance is named by the root of its class.
\* _micropath_elem of the instance: the element its Delegation is mounted
\* at, set by Delegation.get; None on a controller nothing delegates to
MicropathElem(h, c) ==
    IF \E d \in Deleg : h.dctrl[d] = c
    THEN h.delem[CHOOSE d \in Deleg : h.dctrl[d] = c]
    ELSE NoNode

\* _micropath_parent of the instance: the controller that delegates to it
MicropathParent(h, c) ==
    IF MicropathElem(h, c) = NoNode THEN NoNode
    ELSE TopOf(h, MicropathElem(h, c), MaxDepth)

\* One more way to put the collected elements together: as collected
UnReversed(path_elems) == path_elems

\* reversed(path_elems)
Reversed(path_elems) == Reverse(path_elems)

\* while elem: the element's contribution, then its parent
RECURSIVE WalkElems(_, _, _, _)
WalkElems(h, el, kwargs, path_elems) ==
    IF el = NoNode THEN [segs |-> path_elems, err |-> "ok"]
    ELSE IF h.kind[el] = "Path"
    THEN WalkElems(h, h.parent[el], kwargs,
                   Append(path_elems, h.ident[el]))
    ELSE IF h.kind[el] = "Binding"
    THEN IF h.ident[el] \notin DOMAIN kwargs
         THEN [segs |-> path_elems, err |-> "ValueError"]
         ELSE WalkElems(h, h.parent[el], kwargs,
                        Append(path_elems,
                               Format(h, el, kwargs[h.ident[el]])))
    ELSE IF h.kind[el] = "Root"
    THEN WalkElems(h, h.parent[el], kwargs, path_elems)
    ELSE [segs |-> path_elems, err |-> "AssertionError"]

\* while controller: the elements of this controller, then the element
\* and the controller above it
RECURSIVE WalkControllers(_, _, _, _, _)
WalkUp(h, c, r, kwargs) ==
    IF r.err # "ok" THEN r
    ELSE WalkControllers(h, MicropathParent(h, c), MicropathElem(h, c),
                         kwargs, r.segs)

WalkControllers(h, c, el, kwargs, path_elems) ==
    IF c = NoNode THEN [segs |-> path_elems, err |-> "ok"]
    ELSE WalkUp(h, c, WalkElems(h, el, kwargs, path_elems), kwargs)

UrlResult(m, kwargs, r) ==
    [type |-> r.err, op |-> "url_for", key |-> None, func |-> m,
     kwargs |-> kwargs,
     segs |-> IF r.err = "ok" THEN Reversed(r.segs) ELSE <<>>]

\* Request.url_for(handler, **kwargs) for the handler of Method m, bound
\* to the instance of its class
UrlFor(h, m, kwargs) ==
    UrlResult(m, kwargs,
              WalkControllers(h, TopOf(h, h.parent[m], MaxDepth),
                              h.parent[m], kwargs, <<>>))

InitUrlFor ==
    /\ heap \in UrlTrees
    /\ lastOp = [op |-> "init", err |-> "ok"]
    /\ DispOnly /\ EngIdle /\ ConcIdle

\* request.url_for(controller.handler, **kwargs)
ActUrlFor(m, kwargs) ==
    /\ result' = UrlFor(heap, m, kwargs)
    /\ UNCHANGED <<routeVars, concVars>>
    /\ UNCHANGED <<signatures, available, deferred, keySet, keep, invoked,
                   entered>>

NextUrlFor ==
    \E m \in Handlers(heap), D \in SUBSET UrlKeys :
        \E kwargs \in [D -> UrlValues] : ActUrlFor(m, kwargs)

SpecUrlFor == InitUrlFor /\ [][NextUrlFor]_vars

\* ------------------------------------------------------------------------
\* Properties of reverse routing (SpecUrlFor)

\* What an element contributes to the path
SegmentOf(h, el, kwargs) ==
    IF h.kind[el] = "Path" THEN <<h.ident[el]>>
    ELSE IF h.kind[el] = "Binding"
    THEN <<IF h.fmt[el] = None THEN TextType(kwargs[h.ident[el]])
           ELSE Formatter(h.fmt[el], kwargs[h.ident[el]])>>
    ELSE <<>>

\* The segments from the root of a class down to one of its elements
RECURSIVE Down(_, _, _)
Down(h, el, kwargs) ==
    IF el = NoNode THEN <<>>
    ELSE Down(h, h.parent[el], kwargs) \o SegmentOf(h, el, kwargs)

\* The segments from the outermost root down to an element of controller c
RECURSIVE FromOutermost(_, _, _, _)
FromOutermost(h, c, el, kwargs) ==
    (IF MicropathParent(h, c) = NoNode THEN <<>>
     ELSE FromOutermost(h, MicropathParent(h, c), MicropathElem(h, c),
                        kwargs))
        \o Down(h, el, kwargs)

\* The Bindings between the outermost root and an element of controller c
RECURSIVE BindingsAbove(_, _, _)
BindingsAbove(h, c, el) ==
    IF el = NoNode
    THEN IF MicropathParent(h, c) = NoNode THEN {}
         ELSE BindingsAbove(h, MicropathParent(h, c), MicropathElem(h, c))
    ELSE (IF h.kind[el] = "Binding" THEN {h.ident[el]} ELSE {})
             \cup BindingsAbove(h, c, h.parent[el])

\* C18: url_for of a handler yields the segments from the outermost
\* controller's root down to the handler's element: the ident of each Path,
\* the formatted value of each Binding (its formatter, or the string
\* conversion without one), the elements above a mount included; a Binding
\* without a supplied value is an error.
C18_ReverseRoute ==
    result.op = "url_for"
    => LET el == heap.parent[result.func]
           c == TopOf(heap, el, MaxDepth)
       IN  IF BindingsAbove(heap, c, el) \subseteq DOMAIN result.kwargs
           THEN /\ result.type = "ok"
                /\ result.segs = FromOutermost(heap, c, el, result.kwargs)
           ELSE result.type = "ValueError"

\* The handler at Binding(book_id) of the mounted book class has been
\* reverse routed with sub_id 1234 and book_id 5678
C18_Witness ==
    /\ heap = TreeSimple
    /\ result.op = "url_for" /\ result.type = "ok"
    /\ result.kwargs = [sub_id |-> 1234, book_id |-> 5678]
    /\ result.segs = <<"1234", "books", "5678">>

\* ------------------------------------------------------------------------
\* Properties of the method selection (SpecDispatch)

\* The Methods of an element for a verb, HEAD reading as GET, and its
\* fallback Methods; each set has at most one member
ExactMethods(h, el, v) ==
    {m \in Values(h.mmap[h.methods[el]]) :
         h.ident[m] = (IF v = "HEAD" THEN "GET" ELSE v)}
FallbackMethods(h, el) ==
    {m \in Values(h.mmap[h.methods[el]]) : h.ident[m] = None}
ChosenMethods(h, el, v) ==
    IF ExactMethods(h, el, v) # {} THEN ExactMethods(h, el, v)
    ELSE FallbackMethods(h, el)

\* C19: at the final node the Method of the request verb is chosen, the
\* GET Method for HEAD, else the fallback Method if there is one; the
\* function is the chosen Method's (none without a Method) and the
\* delegation is the chosen Method's if it has one, else the node's own.
C19_MethodSelection ==
    pc = "decide"
    => LET chosen == ChosenMethods(heap, elem, verb)
       IN  /\ Cardinality(chosen) <= 1
           /\ chosen = {}
              => sel = [func |-> None, delegation |-> heap.deleg[elem]]
           /\ \A m \in chosen :
                  /\ sel.func = heap.func[m]
                  /\ sel.delegation = IF heap.deleg[m] # None
                                      THEN heap.deleg[m]
                                      ELSE heap.deleg[elem]

\* POST at a path whose POST Method delegates to one class while the path
\* itself delegates to another
C19_Witness ==
    /\ pc = "decide" /\ verb = "POST"
    /\ heap.deleg[elem] = "d2"
    /\ \E m \in ExactMethods(heap, elem, verb) : heap.deleg[m] = "d1"
    /\ sel = [func |-> None, delegation |-> "d1"]

\* C20: the ident and value of every Binding that accepted a segment are in
\* the sink, and in the Injector unless the Injector held that key before
\* the walk, in which case the Injector keeps the value it had.
C20_BindingWrites ==
    (pc \in {"select", "decide", "done"} /\ ctrl = MainRoot)
    => \A kv \in DocumentedWalk(heap, MainRoot, FullPath, {}).sink :
           /\ kv[1] \in DOMAIN urlvars /\ urlvars[kv[1]] = kv[2]
           /\ kv[1] \in DOMAIN inj
           /\ inj[kv[1]] = IF kv[1] \in DOMAIN PreparedInjector
                           THEN PreparedInjector[kv[1]] ELSE kv[2]

\* ------------------------------------------------------------------------
\* Declaring a tree: path, bind, route, mount and set_ident; a declaration
\* under a key that is taken merges the new element into the one stored
\* ------------------------------------------------------------------------
\* Number of Element objects a declared tree may hold
MaxBuild == 3

BuildIdents == {"x", None}
BuildVerbs == {<<"get">>, <<"get", "post">>}
BuildFuncs == {"f1", "f2"}
MountVerbs == {<<>>, <<"get">>}

\* Whether k more Element objects can be allocated in the declared tree
Room(h, k) == h.alloc + k <= MaxBuild

\* The number of Method objects route(*verbs) constructs
RouteCost(verbs) == IF verbs = <<>> THEN 1 ELSE Len(verbs)

InitBuild ==
    /\ heap = NewElem(EmptyHeap, "Root", None, NoNode)
    /\ lastOp = [op |-> "init", err |-> "ok"]
    /\ DispIdle

\* n.path(ident)
ActPath(n, id) ==
    /\ Room(heap, 1)
    /\ Done("path", ElemPath(heap, n, id))
    /\ UNCHANGED dispVars

\* n.bind(ident)
ActElemBind(n, id) ==
    /\ Room(heap, 1)
    /\ Done("bind", ElemBind(heap, n, id, {}, {}))
    /\ UNCHANGED dispVars

\* @n.route(*verbs) applied to the function f
ActRoute(n, verbs, f) ==
    /\ Room(heap, RouteCost(verbs))
    /\ Done("route", ElemRoute(heap, n, verbs, f))
    /\ UNCHANGED dispVars

\* n.mount(SomeController, *verbs)
ActMountVerbs(n, d, verbs) ==
    /\ d \in FreshDeleg(heap)
    /\ Room(heap, Len(verbs))
    /\ Done("mount", ElemMount(heap, n, d, verbs, MaxDepth))
    /\ UNCHANGED dispVars

NextBuild ==
    \/ \E n \in Allocated(heap), id \in BuildIdents : ActPath(n, id)
    \/ \E n \in Allocated(heap), id \in BuildIdents : ActElemBind(n, id)
    \/ \E n \in Allocated(heap), vs \in BuildVerbs, f \in BuildFuncs :
           ActRoute(n, vs, f)
    \/ \E n \in Allocated(heap), d \in Deleg, vs \in MountVerbs :
           ActMountVerbs(n, d, vs)
    \/ \E n \in Allocated(heap), id \in PathIdents : ActSetIdent(n, id)

SpecBuild == InitBuild /\ [][NextBuild]_vars

\* ------------------------------------------------------------------------
\* Properties of the declarations (SpecBuild)
\* ------------------------------------------------------------------------
\* The Methods of node n under the verb v that have a handler other than f
OtherHandlers(h, n, v, f) ==
    {m \in Values(h.mmap[h.methods[n]]) :
         h.ident[m] = Upper(v) /\ h.func[m] # None /\ h.func[m] # f}

\* C21: routing a verb to a handler at a node that already has a Method of
\* that verb with another handler raises, and the node's Methods are as
\* they were.
C21_DuplicateMethodRejected ==
    \A n \in Allocated(heap), v \in {"get", "post"}, f \in BuildFuncs :
        (/\ heap.master[n] = NoNode /\ heap.kind[n] # "Method"
         /\ OtherHandlers(heap, n, v, f) # {})
        => LET r == ElemRoute(heap, n, <<v>>, f)
           IN  /\ r.err # "ok"
               /\ r.h.mmap[r.h.methods[n]] = heap.mmap[heap.methods[n]]

\* What n.mount(d, v) has to leave behind on a node that delegates already
VerbMounted(h, n, d, v, r) ==
    /\ r.err = "ok"
    /\ r.h.deleg[n] = h.deleg[n]
    /\ \E m \in Values(r.h.mmap[r.h.methods[n]]) :
           /\ r.h.ident[m] = Upper(v)
           /\ r.h.deleg[m] = d /\ r.h.func[m] = None

\* C22: on a node that has a delegation, mount without verbs raises and
\* leaves the node's delegation and Methods alone, and mount with a verb
\* does not raise: it installs a Method of that verb without handler that
\* carries the new delegation, the node's own delegation staying.
C22_MountOnDelegated ==
    \A n \in Allocated(heap), d \in FreshDeleg(heap) :
        (heap.master[n] = NoNode /\ heap.deleg[n] # None
             /\ heap.kind[n] # "Method")
        => /\ LET r == ElemMount(heap, n, d, <<>>, MaxDepth)
              IN  r.err = "ValueError" /\ r.h = heap
           /\ \A v \in {"get", "post"} :
                  (Upper(v) \notin Keys(heap.mmap[heap.methods[n]])
                       /\ heap.alloc < MaxNodes)
                  => VerbMounted(heap, n, d, v,
                                 ElemMount(heap, n, d, <<v>>, MaxDepth))

\* Every child in a map is stored under its own ident
KeyedByIdent(h) ==
    \A m \in Allocated(h), which \in MapNames :
        \A i \in DOMAIN MapOf(h, which, m) :
            MapOf(h, which, m)[i].k = h.ident[MapOf(h, which, m)[i].v]

\* set_ident raises on a Root, on a Method and on an element that has an
\* ident, and changes nothing
SetIdentRefused(h) ==
    \A n \in Allocated(h), id \in PathIdents :
        (h.kind[n] \in {"Root", "Method"} \/ Truthy(h.ident[n]))
        => LET r == SetIdent(h, n, id)
           IN  r.err = "ValueError" /\ r.h = h

\* No step changes an ident that is set
IdentKept ==
    \A n \in Allocated(heap) :
        Truthy(heap.ident[n]) => heap'.ident[n] = heap.ident[n]

\* C25: while a tree is declared every child in a paths, bindings or
\* methods map is stored under its own ident, an ident that is set never
\* changes, and set_ident on an element whose ident is set, on a Root or
\* on a Method raises and changes nothing.
C25_IdentImmutable ==
    /\ [](KeyedByIdent(heap) /\ SetIdentRefused(heap))
    /\ [][IdentKept]_vars

\* set_ident has just been refused in a tree where a named Path is stored
\* in its parent's map and an element named by set_ident is as well
C25_Witness ==
    /\ lastOp = [op |-> "set_ident", err |-> "ValueError"]
    /\ \E n \in Allocated(heap) :
           /\ heap.kind[n] \in {"Path", "Binding"}
           /\ heap.ident[n] = "k" /\ heap.parent[n] # NoNode
           /\ n \in Children(heap, heap.parent[n])

\* ------------------------------------------------------------------------
\* Properties of the keyword map and of the cached signature (SpecSignature)
\* ------------------------------------------------------------------------
\* Each keyword argument has its override if there is one, else its
\* available value
OverridesFirst(kw, kwargs, additional) ==
    \A k \in DOMAIN kw :
        kw[k] = IF k \in DOMAIN additional THEN additional[k] ELSE kwargs[k]

\* The functions whose call depends on the state: the one that has been
\* called, or any while none has been
Called1(sigs) == IF sigs = <<>> THEN Funcs ELSE DOMAIN sigs

\* C23: in the keyword map of a call a name found in both the overrides
\* and the available values has the value of the overrides, and a function
\* with a catch-all keyword slot is passed every key of the overrides and
\* of the available values that is not satisfied positionally.
C23_KeywordMap ==
    \A f \in Called1(signatures), n \in 0..MaxArgs, avail, over \in SUBSET ArgNames :
        LET r == Invoke(signatures, f, n, Available(avail),
                        Overrides(over)).res
        IN  r.type = "called"
            => /\ OverridesFirst(r.kw, Available(avail), Overrides(over))
               /\ GetSig(f).all_kw
                  => (avail \cup over) \ Satisfied(GetSig(f), n)
                         \subseteq DOMAIN r.kw

\* f_kw(self, **kwargs) has just been called with self positional, other
\* both available and overridden and sub_id available only
C23_Witness ==
    /\ result.type = "called" /\ result.func = "f_kw"
    /\ result.args = <<"selfObj">>
    /\ "other" \in result.given.both
    /\ "sub_id" \in result.given.any \ result.given.both
    /\ result.kw = [other |-> "over", sub_id |-> "1234"]

\* WantSignature.__contains__ on the cached signature of f
WantsCached(sigs, f, keyword) ==
    GetSig(f).all_kw \/ keyword \in sigs[f]

\* C30: a call through the engine leaves the cached signature as first
\* introspection built it: the wanted names are the required and optional
\* names, wants() answers as at first, and equal positional arguments,
\* available values and overrides give the keyword map they gave on the
\* fresh signature.
C30_SignatureUnchanged ==
    \A f \in DOMAIN signatures :
        /\ signatures[f] = GetSig(f).required \cup GetSig(f).optional
        /\ \A k \in ArgNames :
               WantsCached(signatures, f, k)
                   = WantsCached(FromFunc(<<>>, f), f, k)
        /\ \A n \in 0..MaxArgs, avail, over \in SUBSET ArgNames :
               Invoke(signatures, f, n, Available(avail),
                      Overrides(over)).res
                   = Invoke(<<>>, f, n, Available(avail),
                            Overrides(over)).res

\* ------------------------------------------------------------------------
\* Delegation.get and its cache across controller objects
\* ------------------------------------------------------------------------
\* Number of addresses the controller objects are allocated at
MaxAddr == 2

Addr == 1..MaxAddr
Owners == {"o1", "o2", "o3"}

\* The Delegation mounted where the requests go; the other one is built
\* by Controller.__init__ or not at all
Reached == {"d1"}

\* A controller object not yet constructed
Unborn == [st |-> "unborn", addr |-> 0, held |-> FALSE]

\* The state Delegation.get works on
Own(os, cs, is) == [owners |-> os, caches |-> cs, insts |-> is]

\* A key that is the same for every object
CacheKeyShared(os, o) == 0

\* key = id(obj): the address of the object
CacheKey(os, o) == os[o].addr

\* The sub-controller construct(obj) returns, with _micropath_parent and
\* _micropath_elem as get sets them
NewInst(h, d, o) == [deleg |-> d, parent |-> o, elem |-> h.delem[d]]

\* What get leaves behind and returns
GetResult(st, i, c) ==
    [owners |-> st.owners, caches |-> st.caches, insts |-> st.insts,
     inst |-> i, constructed |-> c]

\* self._cache[key] = self.construct(obj) and the two attributes
Store(st, h, d, o, key) ==
    GetResult(Own(st.owners,
                  [st.caches EXCEPT ![d] = (key :> (Len(st.insts) + 1)) @@ @],
                  Append(st.insts, NewInst(h, d, o))),
              Len(st.insts) + 1, TRUE)

\* Delegation.get(obj) of the Delegation d
Get(st, h, d, o) ==
    IF CacheKey(st.owners, o) \in DOMAIN st.caches[d]
    THEN GetResult(st, st.caches[d][CacheKey(st.owners, o)], FALSE)
    ELSE Store(st, h, d, o, CacheKey(st.owners, o))

\* Controller.__init__: deleg.get(self) for each of _micropath_delegations
RECURSIVE ControllerInit(_, _, _, _)
ControllerInit(st, h, ds, o) ==
    IF ds = {} THEN st
    ELSE LET d == CHOOSE x \in ds : TRUE
         IN  ControllerInit(Get(st, h, d, o), h, ds \ {d}, o)

\* An object is referenced by the application that holds it and by every
\* cached sub-controller whose _micropath_parent it is
Referenced(os, cs, is, o) ==
    \/ os[o].held
    \/ \E d \in Deleg : \E k \in DOMAIN cs[d] : is[cs[d][k]].parent = o

\* The addresses of the objects that are alive
Taken(os) == {os[o].addr : o \in {x \in Owners : os[x].st = "live"}}

InitDelegation ==
    /\ heap = TreeVerbs /\ lastOp = [op |-> "init", err |-> "ok"]
    /\ DispOnly /\ EngIdle
    /\ owner = "none" /\ delegations \in SUBSET Deleg
    /\ dcache = <<>> /\ built = <<>> /\ seen = <<>> /\ threads = <<>>
    /\ owners = [o \in Owners |-> Unborn]
    /\ caches = [d \in Deleg |-> <<>>]
    /\ insts = <<>>
    /\ got = [type |-> "none"]

OwnBecomes(st) ==
    owners' = st.owners /\ caches' = st.caches /\ insts' = st.insts

\* o = SomeController(): the object is allocated at a free address and
\* Controller.__init__ runs
ActNewOwner(o, a) ==
    /\ owners[o].st = "unborn" /\ a \notin Taken(owners)
    /\ OwnBecomes(ControllerInit(
           Own([owners EXCEPT ![o] = [st |-> "live", addr |-> a,
                                      held |-> TRUE]],
               caches, insts),
           heap, delegations, o))
    /\ got' = [type |-> "init", owner |-> o]
    /\ UNCHANGED <<routeVars, engVars, owner, delegations, dcache, built,
                   seen, threads>>

GotOf(d, o, r) ==
    [type |-> "get", deleg |-> d, owner |-> o, inst |-> r.inst,
     constructed |-> r.constructed]

GetDone(d, o, r) == OwnBecomes(r) /\ got' = GotOf(d, o, r)

\* d.get(o), called with a reference to o
ActGet(d, o) ==
    /\ owners[o].st = "live" /\ owners[o].held
    /\ GetDone(d, o, Get(Own(owners, caches, insts), heap, d, o))
    /\ UNCHANGED <<routeVars, engVars, owner, delegations, dcache, built,
                   seen, threads>>

\* The application lets go of o; an object nothing refers to is freed at
\* once and its address can be given to another object
ActDrop(o) ==
    /\ owners[o].st = "live" /\ owners[o].held
    /\ owners' = [owners EXCEPT
                      ![o].held = FALSE,
                      ![o].st = IF Referenced([owners EXCEPT
                                                   ![o].held = FALSE],
                                              caches, insts, o)
                                THEN "live" ELSE "dead"]
    /\ got' = [type |-> "drop", owner |-> o]
    /\ UNCHANGED <<routeVars, engVars, owner, delegations, dcache, built,
                   seen, threads, caches, insts>>

NextDelegation ==
    \/ \E o \in Owners, a \in Addr : ActNewOwner(o, a)
    \/ \E d \in Reached, o \in Owners : ActGet(d, o)
    \/ \E o \in Owners : ActDrop(o)

SpecDelegation == InitDelegation /\ [][NextDelegation]_vars

\* ------------------------------------------------------------------------
\* Properties of Delegation.get (SpecDelegation)

Alive == {o \in Owners : owners[o].st = "live"}

\* The sub-controllers constructed for the owner o by the Delegation d
BuiltFor(d, o) ==
    {i \in DOMAIN insts : insts[i].deleg = d /\ insts[i].parent = o}

\* get on an owner without an entry constructs, caches under the owner and
\* sets parent and element; get on an owner with an entry returns the
\* entry and constructs nothing
GetContract(st, h, d, o, r) ==
    IF \E k \in DOMAIN st.caches[d] : st.insts[st.caches[d][k]].parent = o
    THEN /\ ~r.constructed /\ r.insts = st.insts /\ r.caches = st.caches
         /\ st.insts[r.inst].parent = o
    ELSE /\ r.constructed /\ r.inst \notin DOMAIN st.insts
         /\ r.insts = Append(st.insts, NewInst(h, d, o))
         /\ r.caches[d][CacheKey(st.owners, o)] = r.inst

\* C24: get constructs the sub-controller of an owner at most once: the
\* first call constructs it, caches it under that owner and sets the owner
\* as its parent and the mount element on it, every later call for the
\* owner returns that object and constructs nothing, and two owners that
\* are alive never have one cache entry.
C24_OncePerOwner ==
    /\ \A d \in Deleg, o \in Owners : Cardinality(BuiltFor(d, o)) <= 1
    /\ \A d \in Deleg, o \in Alive :
           /\ owners[o].held
              => GetContract(Own(owners, caches, insts), heap, d, o,
                             Get(Own(owners, caches, insts), heap, d, o))
           /\ \A i \in BuiltFor(d, o) :
                  /\ caches[d][CacheKey(owners, o)] = i
                  /\ insts[i].elem = heap.delem[d]
    /\ \A d \in Deleg, o1, o2 \in Alive :
           o1 # o2 => CacheKey(owners, o1) # CacheKey(owners, o2)

\* get has just returned the cached sub-controller of an owner living at
\* the address of an owner that was freed, while another owner has a
\* sub-controller of its own in the same cache
C24_Witness ==
    /\ got.type = "get" /\ ~got.constructed
    /\ insts[got.inst].parent = got.owner
    /\ \E o \in Owners :
           owners[o].st = "dead" /\ owners[o].addr = owners[got.owner].addr
    /\ \E o \in Alive \ {got.owner} : BuiltFor(got.deleg, o) # {}

\* ------------------------------------------------------------------------
\* Sequences of merges: three nodes, colliding keys, different parents
\* ------------------------------------------------------------------------
\* FxThree with a delegation mounted at the second of the three
FxThreeMounted == ElemMount(FxThree, 2, "d1", <<>>, MaxDepth).h

\* Two parentless Paths "x", each with a child "k" that has a child
FxCollide ==
    LET h1 == NewElem(NewElem(EmptyHeap, "Path", "x", NoNode),
                      "Path", "x", NoNode)
        h2 == ElemPath(h1, 1, "k").h
        h3 == ElemPath(h2, 2, "k").h
        h4 == ElemPath(h3, 3, "y").h
    IN  ElemPath(h4, 4, "b").h

\* Two Roots, each with a Path "x"; the second "x" has a child
FxParents ==
    LET h1 == NewElem(NewElem(EmptyHeap, "Root", None, NoNode),
                      "Root", None, NoNode)
        h2 == ElemPath(h1, 1, "x").h
        h3 == ElemPath(h2, 2, "x").h
    IN  ElemPath(h3, 4, "y").h

\* Two parentless Paths "x": the first with a child "k", the second with
\* children "a" and "k"; the two "k" delegate to different controllers
FxConflict ==
    LET h1 == NewElem(NewElem(EmptyHeap, "Path", "x", NoNode),
                      "Path", "x", NoNode)
        h2 == ElemMount(ElemPath(h1, 1, "k").h, 3, "d1", <<>>, MaxDepth).h
        h3 == ElemPath(h2, 2, "a").h
    IN  ElemMount(ElemPath(h3, 2, "k").h, 5, "d2", <<>>, MaxDepth).h

ChainFixtures == {FxThree, FxThreeMounted, FxCollide, FxParents, FxConflict}

InitChain ==
    /\ heap \in ChainFixtures
    /\ lastOp = [op |-> "init", err |-> "ok"]
    /\ DispIdle

NextChain == \E s, o \in Allocated(heap) : ActMerge(s, o)

SpecChain == InitChain /\ [][NextChain]_vars

\* ------------------------------------------------------------------------
\* Properties of sequences of merges (SpecChain)

\* The node at the end of a node's chain of masters
RECURSIVE Leader(_, _, _)
Leader(h, n, fuel) ==
    IF fuel = 0 \/ h.master[n] = NoNode THEN n
    ELSE Leader(h, h.master[n], fuel - 1)

\* Three nodes that are pairwise operands of the union rule
Triple(h, a, b, c) ==
    Disjoint(h, a, b) /\ Disjoint(h, b, c) /\ Disjoint(h, a, c)

\* The ways to join three nodes by two merges: any two of them in either
\* direction, then the third with either of the two in either direction
Joins(a, b, c) ==
    {q \in {a, b, c} \X {a, b, c} \X {a, b, c} \X {a, b, c} :
         /\ q[1] # q[2] /\ q[3] # q[4]
         /\ {q[3], q[4]} # {q[1], q[2]}}

\* A merge after one that returned
MergeNext(r, s, o) ==
    IF r.err # "ok" THEN r ELSE Merge(r.h, s, o, MaxDepth)

Joined(h, q) == MergeNext(Merge(h, q[1], q[2], MaxDepth), q[3], q[4])

\* What is left of three joined nodes: the leader's entries and delegation,
\* whether all three have one leader and every child has it as parent
Summary(r, a, b, c) ==
    LET l == Leader(r.h, a, MaxDepth)
    IN  [err |-> r.err,
         entries |-> [w \in MapNames |-> Entries(r.h, w, l)],
         deleg |-> r.h.deleg[l],
         one |-> Leader(r.h, b, MaxDepth) = l /\ Leader(r.h, c, MaxDepth) = l
                     /\ r.h.master[l] = NoNode,
         parents |-> \A x \in Children(r.h, l) : r.h.parent[x] = l]

\* The delegation three nodes without conflict have between them
SharedDelegation(h, S) ==
    IF \E n \in S : h.deleg[n] # None
    THEN h.deleg[CHOOSE n \in S : h.deleg[n] # None] ELSE None

\* The one outcome every way of joining has to give
Union3(h, a, b, c) ==
    [err |-> "ok",
     entries |-> [w \in MapNames |-> Entries(h, w, a) \cup Entries(h, w, b)
                                         \cup Entries(h, w, c)],
     deleg |-> SharedDelegation(h, {a, b, c}),
     one |-> TRUE,
     parents |-> TRUE]

\* C26: three nodes of one kind and ident with equal parents, pairwise
\* without a common child key and without conflicting delegations, joined
\* by two merges in any order and direction give a leader with the same
\* entries in its three maps (those of all three), the same delegation and
\* every child's parent set to that leader.
C26_MergeOrderIndependent ==
    \A a, b, c \in Allocated(heap) :
        Triple(heap, a, b, c)
        => \A q \in Joins(a, b, c) :
               Summary(Joined(heap, q), a, b, c) = Union3(heap, a, b, c)

\* Three nodes have been joined by two merges of which the second was made
\* by the third node absorbing the leader of the first: that leader has a
\* master and is itself the master of another node
C26_Witness ==
    /\ lastOp = [op |-> "merge", err |-> "ok"]
    /\ \E l, m, n \in Allocated(heap) :
           /\ heap.master[l] = NoNode /\ heap.master[m] = l
           /\ heap.master[n] = m /\ l # m /\ m # n /\ l # n
           /\ Cardinality(ChildKeys(heap, "paths", l)) = 2
           /\ Cardinality(ChildKeys(heap, "bindings", l)) = 1
           /\ \A x \in Children(heap, l) : heap.parent[x] = l

\* No node is its own master
NoSelfMaster(h) == \A n \in Allocated(h) : h.master[n] # n

\* Every absorbed node refers to a node without master and to its maps
NoStaleAlias(h) ==
    \A n \in Allocated(h) :
        h.master[n] # NoNode
        => /\ h.master[h.master[n]] = NoNode
           /\ \A w \in MapNames : AttrOf(h, w, n) = AttrOf(h, w, h.master[n])

\* C27: after any sequence of merges of different nodes the master of
\* every absorbed node is the current leader, a node without master, and
\* the absorbed node's paths, bindings and methods are the leader's maps.
C27_NoStaleAlias == NoSelfMaster(heap) => NoStaleAlias(heap)

\* Two mergeable nodes with a child key in common in the map w
Colliding(h, s, o, w) ==
    /\ Unmerged(h, s, o)
    /\ h.kind[s] = h.kind[o] /\ h.ident[s] = h.ident[o]
    /\ h.parent[s] = h.parent[o]
    /\ ~(h.deleg[s] # None /\ h.deleg[o] # None /\ h.deleg[s] # h.deleg[o])
    /\ ChildKeys(h, w, s) \cap ChildKeys(h, w, o) # {}

\* The child the node n has under the key k in its map w
ChildAt(h, w, n, k) == Lookup(MapOf(h, w, AttrOf(h, w, n)), k)

\* The survivor keeps its child under the key, and that child holds the
\* children of both
ChildrenUnited(h, s, o, w, k, r) ==
    /\ ChildAt(r.h, w, s, k) = ChildAt(h, w, s, k)
    /\ Cardinality({i \in DOMAIN MapOf(r.h, w, AttrOf(r.h, w, s)) :
                        MapOf(r.h, w, AttrOf(r.h, w, s))[i].k = k}) = 1
    /\ \A w2 \in MapNames :
           ChildKeys(r.h, w2, ChildAt(h, w, s, k))
               = ChildKeys(h, w2, ChildAt(h, w, s, k))
                     \cup ChildKeys(h, w2, ChildAt(h, w, o, k))

\* C28: merging two nodes whose maps share a key returns: the absorbed
\* node's child of that key is merged into the survivor's child of that
\* key, which is then the one child under the key and holds the children
\* of both.
C28_CollidingMergeReturns ==
    \A s, o \in Allocated(heap), w \in MapNames :
        Colliding(heap, s, o, w)
        => LET r == Merge(heap, s, o, MaxDepth)
           IN  /\ r.err = "ok"
               /\ \A k \in ChildKeys(heap, w, s) \cap ChildKeys(heap, w, o) :
                      ChildrenUnited(heap, s, o, w, k, r)

\* Two nodes of one kind and ident, each stored under a parent of its own,
\* the parents being two unmerged nodes that can be merged
UnderTwoParents(h, s, o) ==
    /\ Unmerged(h, s, o)
    /\ h.kind[s] = h.kind[o] /\ h.ident[s] = h.ident[o]
    /\ h.parent[s] # NoNode /\ h.parent[o] # NoNode
    /\ Unmerged(h, h.parent[s], h.parent[o])
    /\ h.kind[h.parent[s]] = h.kind[h.parent[o]]
    /\ h.ident[h.parent[s]] = h.ident[h.parent[o]]
    /\ h.parent[h.parent[s]] = h.parent[h.parent[o]]
    /\ s \in Children(h, h.parent[s]) /\ o \in Children(h, h.parent[o])
    /\ \A n \in {s, o, h.parent[s], h.parent[o]} : h.deleg[n] = None

\* The pair and its parents after the merge
Reconciled(h, s, o, r) ==
    /\ r.err = "ok"
    /\ r.h.master[h.parent[o]] = h.parent[s]
    /\ r.h.master[o] = s
    /\ \A w \in MapNames :
           {e \in Entries(r.h, w, h.parent[s]) : e.k = h.ident[s]}
               \subseteq {[k |-> h.ident[s], v |-> s]}
    /\ s \in Children(r.h, h.parent[s])
    /\ \A c \in Children(h, o) : r.h.parent[c] = s

\* C29: merging two nodes of one ident that have different parents merges
\* the parents first and ends with the pair reconciled: the second parent
\* is an alias of the first, the parent has one entry under the ident, the
\* second node is an alias of the first and its children have the first as
\* parent.
C29_DifferentParents ==
    \A s, o \in Allocated(heap) :
        UnderTwoParents(heap, s, o)
        => Reconciled(heap, s, o, Merge(heap, s, o, MaxDepth))

\* ------------------------------------------------------------------------
\* The master relation (SpecChain)
\* ------------------------------------------------------------------------
\* Following master pointers from n reaches a node without master; a chain
\* over distinct nodes has fewer links than there are nodes
ReachesLeader(h, n) == h.master[Leader(h, n, MaxNodes)] = NoNode

\* C31: in every state reached by merges the master relation is acyclic:
\* no node is its own master, and the chain of masters of every node ends
\* at a node without master.
C31_MasterAcyclic ==
    /\ NoSelfMaster(heap)
    /\ \A n \in Allocated(heap) : ReachesLeader(heap, n)

\* ------------------------------------------------------------------------
\* Bindings declared with forward and foreign references (SpecDeclare)
\* ------------------------------------------------------------------------
\* Idents given at declaration, and idents given later by set_ident
DeclIdents == {"c", "d"}
LateIdents == {"a", "b"}

\* x = root.bind(); y = root.bind(): two Bindings of the node that have no
\* ident yet and are in no map
FxForward ==
    ElemBind(ElemBind(NewElem(EmptyHeap, "Root", None, NoNode),
                      OrderNode, None, {}, {}).h,
             OrderNode, None, {}, {}).h

\* The node, and a second Root with a Binding "y" of its own
FxForeign ==
    ElemBind(NewElem(NewElem(EmptyHeap, "Root", None, NoNode),
                     "Root", None, NoNode),
             2, "y", {}, {}).h

InitDeclare ==
    /\ heap \in {FxForward, FxForeign}
    /\ lastOp = [op |-> "init", err |-> "ok"]
    /\ DispIdle

\* The outcome of bind together with the lists that were passed
Declared(r, bef, aft) ==
    /\ heap' = r.h
    /\ lastOp' = [op |-> "bind", err |-> r.err, before |-> bef, after |-> aft]

\* OrderNode.bind(id, before=bef, after=aft) with any Bindings that exist:
\* children of the node with or without ident, and Bindings of other nodes
ActDeclare(id, bef, aft) ==
    /\ Cardinality(BindingsOf(heap)) < MaxBindings
    /\ bef \cap aft = {}
    /\ id \notin Keys(heap.bmap[heap.bindings[OrderNode]])
    /\ Declared(ElemBind(heap, OrderNode, id, bef, aft), bef, aft)
    /\ UNCHANGED dispVars

\* b.ident = id on a Binding (Binding.set_ident)
ActLateIdent(n, id) ==
    /\ Done("set_ident", SetIdent(heap, n, id))
    /\ UNCHANGED dispVars

NextDeclare ==
    \/ \E id \in DeclIdents :
         \E bef \in SUBSET BindingsOf(heap), aft \in SUBSET BindingsOf(heap) :
           ActDeclare(id, bef, aft)
    \/ \E n \in BindingsOf(heap), id \in LateIdents : ActLateIdent(n, id)
    \/ ActIter

SpecDeclare == InitDeclare /\ [][NextDeclare]_vars

\* ------------------------------------------------------------------------
\* Properties of declared constraints (SpecDeclare)
\* ------------------------------------------------------------------------
\* A list that holds every element of S once and nothing else
IsPermutation(ord, S) == Range(ord) = S /\ Len(ord) = Cardinality(S)

\* What iter(OrderNode.bindings) returns in the current state
OrderIter == BindingIter(heap, heap.bindings[OrderNode])

\* C32: whatever the before and after sets of the node's Bindings hold
\* (cycles, a Binding itself, Bindings that are not children of the node),
\* iterating the binding map ends without error and yields every key of
\* the map exactly once and nothing else.
C32_OrderIsPermutation ==
    /\ OrderIter.err = "ok"
    /\ IsPermutation(OrderIter.keys, OrderKeys)

\* What BindingMap.__iter__ computes from the current Bindings of the node
\* when nothing is memoized
FreshIter ==
    IterStore(heap, heap.bindings[OrderNode],
              TopoSort(Adjacency(heap, heap.bindings[OrderNode])))

\* A memoized order is what a computation from the current Bindings gives
MemoCurrent ==
    OrderCached => FreshIter.err = "ok" /\ OrderList = FreshIter.keys

\* A step that changes the keys of the node's binding map drops the memo
InsertInvalidates ==
    Keys(heap'.bmap[heap'.bindings[OrderNode]]) # OrderKeys
    => ~heap'.cached[heap'.bindings[OrderNode]]

\* Iterating a map whose order is memoized returns the memo, changes nothing
MemoReused ==
    (OrderCached /\ lastOp'.op = "iter")
    => heap' = heap /\ OrderIter.keys = OrderList

\* C38: the order the node returns corresponds to its current Bindings:
\* every insertion into the node's binding map drops the memoized order,
\* a memoized order equals the order computed from the current Bindings,
\* and iterating again between insertions returns the memo unchanged.
C38_MemoFollowsInsertions ==
    /\ []MemoCurrent
    /\ [][InsertInvalidates /\ MemoReused]_vars

\* Each Binding of a list passed to bind is kept in the set built from the
\* list: a Binding without ident as itself, one with an ident under its
\* ident
KeptIn(h, given, kept) ==
    \A y \in given :
        IF Truthy(h.ident[y]) THEN \E z \in kept : h.ident[z] = h.ident[y]
        ELSE y \in kept

\* C40: every Binding passed in a before or after list of bind is kept as
\* a constraint of the new Binding, also when several of them have no
\* ident yet.
C40_EachConstraintKept ==
    [][(lastOp'.op = "bind" /\ lastOp'.err = "ok")
       => /\ KeptIn(heap, lastOp'.before, heap'.before[heap'.alloc])
          /\ KeptIn(heap, lastOp'.after, heap'.after[heap'.alloc])]_vars

\* ------------------------------------------------------------------------
\* Building through merged nodes (SpecAlias)
\* ------------------------------------------------------------------------
\* Two parentless Paths "x", built apart and merged later
InitAlias ==
    /\ heap = NewElem(NewElem(EmptyHeap, "Path", "x", NoNode),
                      "Path", "x", NoNode)
    /\ lastOp = [op |-> "init", err |-> "ok"]
    /\ DispIdle

\* n.mount(d) with a Delegation instance d, new or mounted before
ActMountInstance(n, d) ==
    /\ Done("mount", ElemMount(heap, n, d, <<>>, MaxDepth))
    /\ UNCHANGED dispVars

NextAlias ==
    \/ \E s, o \in Allocated(heap) : ActMerge(s, o)
    \/ \E n \in Allocated(heap), d \in Deleg : ActMountInstance(n, d)
    \/ \E n \in Allocated(heap), id \in BuildIdents : ActPath(n, id)
    \/ \E n \in Allocated(heap), id \in BuildIdents : ActElemBind(n, id)
    \/ \E n \in Allocated(heap), vs \in BuildVerbs, f \in BuildFuncs :
           ActRoute(n, vs, f)

SpecAlias == InitAlias /\ [][NextAlias]_vars

\* The nodes that have not been merged into another
Leaders(h) == {n \in Allocated(h) : h.master[n] = NoNode}

\* C33: every child stored in a map of a node that has no master has that
\* node as its parent, also a child created by path, bind or route called
\* on a node that was absorbed by the merge.  (States in which a node is
\* its own master are left out here.)
C33_ChildrenOfLeader ==
    NoSelfMaster(heap)
    => \A n \in Leaders(heap) :
           \A c \in Children(heap, n) : heap.parent[c] = n

\* The delegations of survivor s and absorbed node o in heap g after the
\* merge performed in heap h; d is what o.delegation returned before
DelegationMoved(h, s, o, d, g) ==
    /\ g.deleg[s] = (IF h.deleg[s] # None THEN h.deleg[s] ELSE d)
    /\ g.deleg[o] = None
    /\ DelegationOf(g, o, MaxDepth) = g.deleg[s]

\* C34: when s.merge(o) succeeds for a node s that has no master and
\* another node o, s holds the one delegation of the pair afterwards (its
\* own if it had one, else the one o had or referred to; unchanged when
\* both are the same), o holds none of its own, and the delegation read
\* through o is the one of s.  (States in which a node is its own master
\* are left out here.)
C34_DelegationAfterMerge ==
    \A s, o \in Node :
        (/\ s \in Allocated(heap) /\ o \in Allocated(heap) /\ s # o
         /\ heap.master[s] = NoNode /\ NoSelfMaster(heap))
        => LET r == Merge(heap, s, o, MaxDepth)
           IN  r.err = "ok"
               => DelegationMoved(heap, s, o,
                                  DelegationOf(heap, o, MaxDepth), r.h)

\* ------------------------------------------------------------------------
\* Registrations of one verb (SpecBuild)
\* ------------------------------------------------------------------------
\* The Method the node n holds for the verb v
MethodAt(h, n, v) == Lookup(h.mmap[h.methods[n]], Upper(v))

\* route(v)(f) has returned in r and the node's Method of v carries f
RouteKept(n, v, f, r) ==
    r.err = "ok"
    => /\ Upper(v) \in Keys(r.h.mmap[r.h.methods[n]])
       /\ r.h.func[MethodAt(r.h, n, v)] = f

\* mount(d, v) has returned in r and the node's Method of v delegates to d
MountKept(n, v, d, r) ==
    r.err = "ok"
    => /\ Upper(v) \in Keys(r.h.mmap[r.h.methods[n]])
       /\ DelegationOf(r.h, MethodAt(r.h, n, v), MaxDepth) = d

\* C35: whenever route(v)(f) or mount(d, v) returns without error at a
\* node, the Method the node holds for v carries f, respectively delegates
\* to d, also when the node had a Method for v before.
C35_RegistrationKept ==
    \A n \in Allocated(heap), v \in {"get", "post"} :
        (heap.master[n] = NoNode /\ heap.kind[n] # "Method")
        => /\ \A f \in BuildFuncs :
                  RouteKept(n, v, f, ElemRoute(heap, n, <<v>>, f))
           /\ \A d \in FreshDeleg(heap) :
                  MountKept(n, v, d, ElemMount(heap, n, d, <<v>>, MaxDepth))

\* ------------------------------------------------------------------------
\* Merges that fail below the top (SpecChain)
\* ------------------------------------------------------------------------
\* C36: a merge that raises ValueError, at the operands or at any depth
\* below them, leaves every object as it was before the merge: no child
\* handled before the failure stays re-inserted or re-parented.
C36_FailedMergeChangesNothing ==
    [][lastOp' = [op |-> "merge", err |-> "ValueError"] => heap' = heap]_vars

\* ------------------------------------------------------------------------
\* Delegation during dispatch (SpecDispatch)
\* ------------------------------------------------------------------------
\* Where the documented walk of the request path ends in the controller
\* that received the request
MainWalk == DocumentedWalk(heap, MainRoot, FullPath, {})

\* What is selected at that element for the verb of the request
MainSel == MicropathDelegation(heap, MainWalk.node, verb)

\* The request is one the receiving controller hands to a delegate: no
\* handler it can call, and a delegation
Delegates ==
    /\ MainSel.delegation # None
    /\ ~(MainSel.func # None
           /\ (MainWalk.rest = <<>> \/ Wants(MainSel.func, "path_info")))

\* C37: when the receiving controller delegates, the walk of the delegate
\* starts at the delegate's own Root with exactly the segments left
\* unconsumed, the first of them the segment that did not match, and with
\* the same Injector; a request that is to be delegated ends in the
\* delegate.
C37_DelegateWalk ==
    /\ (ctrl # MainRoot /\ pc = "resolve" /\ elem = ctrl)
       => /\ ctrl = heap.dctrl[MainSel.delegation]
          /\ heap.kind[ctrl] = "Root"
          /\ pathInfo = MainWalk.rest
          /\ \A k \in DOMAIN PreparedInjector :
                 k \in DOMAIN inj /\ inj[k] = PreparedInjector[k]
          /\ \A kv \in MainWalk.sink :
                 kv[1] \in DOMAIN inj
    /\ (pc = "done" /\ Delegates) => ctrl = heap.dctrl[MainSel.delegation]

\* ------------------------------------------------------------------------
\* Reverse routing and the walk (SpecDispatch)
\* ------------------------------------------------------------------------
\* No Binding of the classes has a validator or a formatter
DefaultsOnly(h) ==
    \A n \in 1..h.alloc :
        h.kind[n] = "Binding" => h.valid[n] = None /\ h.fmt[n] = None

\* The walk of the request in the controller that received it is over
MainWalkOver == ctrl = MainRoot /\ pc \in {"select", "decide", "done"}

\* C39: for a handler at an element E of the controller and values for the
\* Bindings above E (no formatters, no validators), the walk of the
\* segments that url_for yields ends at E with the path exhausted and with
\* the sink holding those values, each as url_for wrote it.
C39_RoundTrip ==
    (MainWalkOver /\ DefaultsOnly(heap))
    => \A m \in Handlers(heap) :
         LET E == heap.parent[m]
             D == BindingsAbove(heap, MainRoot, E)
         IN  (TopOf(heap, E, MaxDepth) = MainRoot /\ D \subseteq UrlKeys)
             => \A kwargs \in [D -> UrlValues] :
                  UrlFor(heap, m, kwargs).segs = FullPath
                  => /\ elem = E
                     /\ pathInfo = <<>>
                     /\ SinkOf(urlvars)
                          = {<<k, TextType(kwargs[k])>> : k \in D}

====
